---------------------------- MODULE Spec2Model ----------------------------
(***************************************************************************)
(* A model of the Tavor Python SDK (tavor-dev/sdk-py):                     *)
(*   - the streaming command executor BoxHandle._run_with_streaming        *)
(*     (src/src/tavor/client.py), specification SpecStream;                *)
(*   - the box handle life cycle of BoxHandle / AsyncBoxHandle and the     *)
(*     scoped form Tavor.box / AsyncTavor.box, specification SpecHandle.   *)
(* Text is modelled as sequences of one-character strings, so that a       *)
(* stream can be cut anywhere.                                             *)
(***************************************************************************)
EXTENDS Integers, Sequences, FiniteSets, TLC

VARIABLES
    \* ---- streaming executor (client.py, _run_with_streaming) ----
    sent,        \* the SSE records the service writes on the connection
    wire,        \* the text of the response body not yet received
    http_status, \* response.status_code of the streaming POST (0: not sent)
    resp_body,   \* what that response carries ("none": not sent)
    buffer,      \* local `buffer`
    stdout,      \* local `stdout`
    stderr,      \* local `stderr`
    exit_code,   \* local `exit_code`
    status,      \* local `status`
    command_id,  \* local `command_id`
    on_stdout,   \* options.on_stdout is registered
    on_stderr,   \* options.on_stderr is registered
    timeout,     \* options.timeout (NoTimeout stands for None)
    elapsed,     \* time.time() - start_time
    run_state,   \* "init", "streaming", "returned", "raised"
    how,         \* which return or raise statement ended the run
    result,      \* the CommandResult returned (Null before)
    dispatched,  \* history: the events parse_sse_stream handed to the loop body
    callbacks,   \* history: the callback invocations, in order
    \* ---- box handle (client.py BoxHandle, async_client.py AsyncBoxHandle) ----
    kind,        \* "blocking" (BoxHandle) or "async" (AsyncBoxHandle)
    scope,       \* "none" (create_box), "body" (inside `with client.box()`), "exited"
    exit_kind,   \* how the scoped block was left: "none", "normal", "exception"
    closed,      \* self._closed
    box,         \* self._box: <<>> (None) or <<Box>>
    pc,          \* position of the flow of control inside the current operation
    op,          \* the public operation called last
    op_closed,   \* history: self._closed when op was called
    entry_running, \* history: wait_until_ready or run() was called with a cached
                 \* status of running
    op_requests, \* history: the requests op has sent
    outcome,     \* "pending", "returned" or the error op raised
    ncalls,      \* history: public operations called so far
    wait_timeout,  \* wait_until_ready's `timeout` (NoTimeout stands for None)
    wait_elapsed,  \* wait_until_ready's time.time() - start_time
    iterations,  \* history: iterations of wait_until_ready's loop begun
    nfetch,      \* history: status fetches (GET /api/v2/boxes/{id}) op has sent
    on_script,   \* history: the answers to op's first fetches follow Script
    last_fetch,  \* history: the status op's most recent fetch reported
    cause_status,  \* history: the status the terminal check of wait_until_ready saw
    cause_details, \* history: the details of the box state fetched with it
    err_status,  \* the status named by the error wait_until_ready raised
    err_details, \* the details appended to that error
    submit_seen, \* history: last_fetch when op sent its command-submit POST
    npoll,       \* history: command-status requests op has sent
    cmd_data,    \* run(): the most recent command-status response (<<>> before)
    last_stdout_len, \* AsyncBoxHandle.run(): stdout already handed to on_stdout
    last_stderr_len, \* AsyncBoxHandle.run(): stderr already handed to on_stderr
    port,        \* the port get_public_url or expose_port was called with
    url,         \* the URL get_public_url returned: <<>> (none) or <<text>>
    flows,       \* concurrent run() calls on the handle: each flow's position,
                 \* command id and timeout
    commands,    \* the service's commands of the box: their statuses, by id
    deletes_sent,   \* history: DELETE requests sent for the box
    deletes_failed, \* history: DELETE requests answered with an error
    counting     \* the history counters are kept (they never change when FALSE)

svars == <<sent, wire, http_status, resp_body, buffer, stdout, stderr, exit_code, status,
           command_id, on_stdout, on_stderr, timeout, elapsed, run_state, how,
           result, dispatched, callbacks>>

\* the variables only the streaming executor uses
execv == <<sent, wire, http_status, resp_body, buffer, stdout, stderr, exit_code, status,
           command_id, run_state, how, dispatched>>

streamv == <<execv, callbacks>>

\* get_public_url's argument and result
urlv == <<port, url>>

\* the concurrent flows and the commands they submitted
flowv == <<flows, commands>>

\* the polling loop's command-status response and callback positions
pollv == <<cmd_data, last_stdout_len, last_stderr_len>>

\* run()'s options and result
optv == <<on_stdout, on_stderr, timeout, elapsed, result>>

waitv == <<wait_timeout, wait_elapsed, iterations, cause_status, cause_details,
           err_status, err_details>>

fetchv == <<nfetch, on_script, last_fetch>>

delv == <<deletes_sent, deletes_failed>>

scopev == <<scope, exit_kind>>

hvars == <<kind, scope, exit_kind, closed, box, pc, op, op_closed, entry_running,
           op_requests,
           outcome, ncalls, wait_timeout, wait_elapsed, iterations, nfetch,
           on_script, last_fetch, cause_status, cause_details, err_status,
           err_details, submit_seen, npoll, cmd_data, last_stdout_len,
           last_stderr_len, port, url, flows, commands, deletes_sent,
           deletes_failed, counting>>

vars == <<svars, hvars>>

(***************************************************************************)
(* Bounds of the model                                                     *)
(***************************************************************************)
MaxRecords == 2   \* records the service writes on one streaming connection
MaxCalls == 3     \* public operations called on one handle
MaxFetch == 5     \* status fetches within one operation
MaxPolls == 3     \* command-status requests within one run()
MaxEvents == 3    \* records the service writes, arriving record by record
MaxElapsed == 2   \* seconds the clock of a streaming run advances

Null == "null"

\* a timeout argument of None
NoTimeout == -1

\* `if timeout and ...`: None and 0 are both falsy
IsSet(t) == t # NoTimeout /\ t # 0

\* the logical flows that call run() on one handle (asyncio tasks, threads)
MaxFlows == 2
Flows == 1 .. MaxFlows

\* a flow that is not inside run()
IdleFlow == [pc |-> "idle", cmd |-> 0, timeout |-> NoTimeout, outcome |-> "none"]

NL == "\n"
CR == "\r"
SP == " "

(***************************************************************************)
(* Text helpers                                                            *)
(***************************************************************************)
StartsWith(s, p) == Len(s) >= Len(p) /\ SubSeq(s, 1, Len(p)) = p

DropFirst(s, n) == SubSeq(s, n + 1, Len(s))

IsPrefix(p, s) == Len(p) <= Len(s) /\ SubSeq(s, 1, Len(p)) = p

RECURSIVE Concat(_)
Concat(ss) == IF ss = <<>> THEN <<>> ELSE Head(ss) \o Concat(Tail(ss))

RECURSIVE Join(_, _)
Join(ss, sep) ==
    IF ss = <<>> THEN <<>>
    ELSE IF Len(ss) = 1 THEN ss[1]
    ELSE ss[1] \o sep \o Join(Tail(ss), sep)

\* str.strip() leaves nothing: the text is empty or whitespace only
Whitespace == {SP, NL, CR, "\t"}
IsBlank(s) == \A i \in 1..Len(s) : s[i] \in Whitespace

RECURSIVE StripLeft(_)
StripLeft(s) ==
    IF s # <<>> /\ Head(s) \in Whitespace THEN StripLeft(Tail(s)) ELSE s

RECURSIVE StripRight(_)
StripRight(s) ==
    IF s # <<>> /\ s[Len(s)] \in Whitespace
    THEN StripRight(SubSeq(s, 1, Len(s) - 1)) ELSE s

\* str.rstrip("\n")
RECURSIVE RStripNL(_)
RStripNL(s) ==
    IF s # <<>> /\ s[Len(s)] = NL THEN RStripNL(SubSeq(s, 1, Len(s) - 1)) ELSE s

\* str.split(sep) for a non-empty separator: left to right, not overlapping
Min(S) == CHOOSE x \in S : \A y \in S : x <= y

\* the first place at or after i where sep occurs in s (0: nowhere)
FindSep(s, sep, i) ==
    LET at == {k \in i..(Len(s) - Len(sep) + 1) :
                  \A j \in 1..Len(sep) : s[k + j - 1] = sep[j]}
    IN  IF at = {} THEN 0 ELSE Min(at)

RECURSIVE SplitFrom(_, _, _)
SplitFrom(s, sep, i) ==
    LET k == FindSep(s, sep, i)
    IN  IF k = 0 THEN <<SubSeq(s, i, Len(s))>>
        ELSE <<SubSeq(s, i, k - 1)>> \o SplitFrom(s, sep, k + Len(sep))

Split(s, sep) == SplitFrom(s, sep, 1)

\* str.splitlines(keepends=True), for the line boundaries \n, \r and \r\n
RECURSIVE LineEnd(_, _)
LineEnd(s, i) ==
    IF i > Len(s) THEN Len(s)
    ELSE IF s[i] = NL THEN i
    ELSE IF s[i] = CR THEN (IF i < Len(s) /\ s[i + 1] = NL THEN i + 1 ELSE i)
    ELSE LineEnd(s, i + 1)

RECURSIVE SplitLinesKeepEnds(_)
SplitLinesKeepEnds(s) ==
    IF s = <<>> THEN <<>>
    ELSE LET e == LineEnd(s, 1)
         IN  <<SubSeq(s, 1, e)>> \o SplitLinesKeepEnds(DropFirst(s, e))

(***************************************************************************)
(* The SSE wire format and the events of the streaming endpoint            *)
(***************************************************************************)
EVENT_FIELD == <<"e", "v", "e", "n", "t", ":">>
DATA_FIELD == <<"d", "a", "t", "a", ":">>
COMMENT_FIELD == <<":">>
BLANK_LINE == <<NL, NL>>

MESSAGE == <<"m", "e", "s", "s", "a", "g", "e">>
START == <<"s", "t", "a", "r", "t">>
OUTPUT == <<"o", "u", "t", "p", "u", "t">>
STATUS == <<"s", "t", "a", "t", "u", "s">>
END == <<"e", "n", "d">>
ERROR == <<"e", "r", "r", "o", "r">>
TIMEOUT == <<"t", "i", "m", "e", "o", "u", "t">>

\* class CommandStatus
CommandStatus == {"queued", "running", "done", "failed", "error"}

\* A decoded JSON object.  data.get(k) of a missing key is None: Null for a
\* string, <<>> for a text (None and "" are both falsy) and for exit_code,
\* which is <<n>> when present.
Doc(so, se, st, ec, cid, err) ==
    [valid |-> TRUE, object |-> TRUE, stdout |-> so, stderr |-> se,
     status |-> st, exit_code |-> ec, command_id |-> cid, error |-> err]

\* A JSON value that is no object (a list, a number, a string, null): it has
\* no .get
NotAnObject ==
    [valid |-> TRUE, object |-> FALSE, stdout |-> <<>>, stderr |-> <<>>,
     status |-> Null, exit_code |-> <<>>, command_id |-> Null, error |-> Null]

\* json.loads raised json.JSONDecodeError
JSONDecodeError ==
    [valid |-> FALSE, object |-> FALSE, stdout |-> <<>>, stderr |-> <<>>,
     status |-> Null, exit_code |-> <<>>, command_id |-> Null, error |-> Null]

\* The payloads the model's service writes.  Each is a short text standing for
\* a JSON document; json.loads maps it to the document, and raises
\* JSONDecodeError for every other text.
P_ab == <<"{", "a", "}">>
P_c == <<"{", "c", "}">>
P_xy == <<"{", "x", "}">>
P_done0 == <<"{", "d", "0", "}">>
P_done == <<"{", "d", "}">>
P_cmd == <<"{", "i", "}">>
P_err == <<"{", "e", "}">>
P_bad == <<"{", "a">>
P_failed2 == <<"{", "f", "2", "}">>
P_end_error == <<"{", "r", "}">>
P_end_timeout == <<"{", "t", "}">>
P_empty == <<"{", "}">>
P_list == <<"[", "]">>
P_failed == <<"{", "f", "}">>

json_loads(text) ==
    LET t == StripRight(StripLeft(text))
    IN  CASE t = P_ab -> Doc(<<"a", "b">>, <<>>, Null, <<>>, Null, Null)
          [] t = P_c -> Doc(<<"c", NL>>, <<>>, Null, <<>>, Null, Null)
          [] t = P_xy -> Doc(<<"x", CR, NL, NL, "y">>, <<"w", NL>>, Null, <<>>, Null, Null)
          [] t = P_done0 -> Doc(<<>>, <<>>, "done", <<0>>, Null, Null)
          [] t = P_done -> Doc(<<>>, <<>>, "done", <<>>, Null, Null)
          [] t = P_cmd -> Doc(<<>>, <<>>, "queued", <<>>, "c1", Null)
          [] t = P_err -> Doc(<<>>, <<>>, Null, <<>>, Null, "boom")
          [] t = P_failed2 -> Doc(<<>>, <<>>, "failed", <<2>>, Null, Null)
          [] t = P_end_error -> Doc(<<>>, <<>>, "error", <<>>, Null, Null)
          [] t = P_end_timeout -> Doc(<<>>, <<>>, "timeout", <<>>, Null, Null)
          [] t = P_empty -> Doc(<<>>, <<>>, Null, <<>>, Null, Null)
          [] t = P_list -> NotAnObject
          [] t = P_failed -> Doc(<<>>, <<>>, "failed", <<>>, Null, Null)
          [] OTHER -> JSONDecodeError

\* A record on the wire: an optional event line (event = <<>>: none) and one
\* data line, ended by a blank line.
Record(ev, payload) == [event |-> ev, data |-> payload]

\* The records the service of SpecStream chooses from
Records ==
    { Record(OUTPUT, P_ab), Record(OUTPUT, P_c), Record(OUTPUT, P_xy),
      Record(END, P_done), Record(<<>>, P_bad) }

\* The records the service of SpecEvents chooses from: every event name the
\* executor dispatches on, with payloads that are JSON objects, JSON of
\* another type, and no JSON
EventRecords ==
    { Record(START, P_cmd), Record(OUTPUT, P_ab), Record(OUTPUT, P_xy),
      Record(STATUS, P_failed2), Record(END, P_done), Record(END, P_end_error),
      Record(END, P_end_timeout), Record(TIMEOUT, P_empty),
      Record(ERROR, P_err), Record(OUTPUT, P_bad), Record(END, P_bad),
      Record(ERROR, P_bad), Record(TIMEOUT, P_bad), Record(ERROR, P_list) }

Serialize(r) ==
    (IF r.event = <<>> THEN <<>> ELSE EVENT_FIELD \o <<SP>> \o r.event \o <<NL>>)
    \o DATA_FIELD \o <<SP>> \o r.data \o <<NL>> \o <<NL>>

RECURSIVE SerializeAll(_)
SerializeAll(rs) ==
    IF rs = <<>> THEN <<>> ELSE Serialize(Head(rs)) \o SerializeAll(Tail(rs))

\* The (event, data) pair a record stands for
EventOf(r) == [event |-> IF r.event = <<>> THEN MESSAGE ELSE r.event, data |-> r.data]

EventsOf(rs) == [i \in 1..Len(rs) |-> EventOf(rs[i])]

(***************************************************************************)
(* parse_sse_stream (tavor/sse_utils.py), after section 4.1 of the         *)
(* specification: the records of `text`, each ended by a blank line.       *)
(***************************************************************************)
TrimOneSpace(s) == IF s # <<>> /\ Head(s) = SP THEN Tail(s) ELSE s

\* acc = [event, data (the data lines so far), out (the events so far)]
ParseLine(acc, line) ==
    IF line = <<>>
    THEN IF acc.data = <<>>
         THEN [acc EXCEPT !.event = MESSAGE]
         ELSE [event |-> MESSAGE, data |-> <<>>,
               out |-> Append(acc.out, [event |-> acc.event,
                                        data |-> Join(acc.data, <<NL>>)])]
    ELSE IF StartsWith(line, COMMENT_FIELD) THEN acc
    ELSE IF StartsWith(line, EVENT_FIELD)
    THEN [acc EXCEPT !.event = TrimOneSpace(DropFirst(line, Len(EVENT_FIELD)))]
    ELSE IF StartsWith(line, DATA_FIELD)
    THEN [acc EXCEPT !.data =
              Append(@, TrimOneSpace(DropFirst(line, Len(DATA_FIELD))))]
    ELSE acc

RECURSIVE ParseLines(_, _)
ParseLines(acc, lines) ==
    IF lines = <<>> THEN acc
    ELSE ParseLines(ParseLine(acc, Head(lines)), Tail(lines))

parse_sse_stream(text) ==
    ParseLines([event |-> MESSAGE, data |-> <<>>, out |-> <<>>],
               Split(text, <<NL>>)).out

(***************************************************************************)
(* BoxHandle._run_with_streaming: the dispatch of one event                *)
(***************************************************************************)
Truthy(text) == text # <<>>

\* for line in text.splitlines(keepends=True): if line: callback(line.rstrip("\n"))
CallbackLines(text) ==
    LET ls == SelectSeq(SplitLinesKeepEnds(text), LAMBDA l : l # <<>>)
    IN  [i \in 1..Len(ls) |-> RStripNL(ls[i])]

\* The callback invocations of one output field: `accumulated` is the local
\* stdout (stderr) after the +=, `text` is data["stdout"] (data["stderr"]), and
\* `event_no` numbers the event being dispatched.
CallsReplayed(stream, accumulated, text, event_no) ==
    LET ls == CallbackLines(accumulated)
    IN  [i \in 1..Len(ls) |-> [stream |-> stream, line |-> ls[i], event_no |-> event_no]]

Calls(stream, accumulated, text, event_no) ==
    LET ls == CallbackLines(text)
    IN  [i \in 1..Len(ls) |-> [stream |-> stream, line |-> ls[i], event_no |-> event_no]]

\* a result that carries the initial status and exit code
CommandResultInitial(st) ==
    [id |-> IF st.command_id = Null THEN "" ELSE st.command_id,
     status |-> "queued", stdout |-> st.stdout, stderr |-> st.stderr,
     exit_code |-> 0]

CommandResult(st) ==
    [id |-> IF st.command_id = Null THEN "" ELSE st.command_id,
     status |-> st.status, stdout |-> st.stdout, stderr |-> st.stderr,
     exit_code |-> st.exit_code]

Return(st, by) ==
    [st EXCEPT !.run_state = "returned", !.how = by, !.result = <<CommandResult(st)>>]

Raise(st, by) == [st EXCEPT !.run_state = "raised", !.how = by]

OnOutput(st, data) ==
    LET s1 == IF Truthy(data.stdout)
              THEN [st EXCEPT !.stdout = @ \o data.stdout,
                              !.callbacks = @ \o (IF on_stdout
                                  THEN Calls("stdout", st.stdout \o data.stdout, data.stdout,
                                             Len(st.dispatched))
                                  ELSE <<>>)]
              ELSE st
    IN  IF Truthy(data.stderr)
        THEN [s1 EXCEPT !.stderr = @ \o data.stderr,
                        !.callbacks = @ \o (IF on_stderr
                            THEN Calls("stderr", s1.stderr \o data.stderr, data.stderr,
                                       Len(st.dispatched))
                            ELSE <<>>)]
        ELSE s1

\* a status branch that keeps a terminal status once it has one
OnStatusKeepsTerminal(st, data) ==
    IF data.status \notin CommandStatus
    THEN Raise(st, "ValueError")
    ELSE IF st.status \in {"done", "failed", "error"} THEN st
    ELSE [st EXCEPT !.status = data.status,
                    !.exit_code = IF data.exit_code # <<>> THEN data.exit_code[1] ELSE @]

OnStatus(st, data) ==
    IF data.status \notin CommandStatus
    THEN Raise(st, "ValueError")     \* CommandStatus(...) of no member
    ELSE [st EXCEPT !.status = data.status,
                    !.exit_code = IF data.exit_code # <<>> THEN data.exit_code[1] ELSE @]

\* an end event that is passed over
OnEndContinues(st, data) == st

\* an end event that returns whatever its status
OnEndReturns(st, data) == Return(st, "end")

OnEnd(st, data) ==
    IF data.status = "error" THEN Return([st EXCEPT !.status = "error"], "end")
    ELSE IF data.status = "timeout" THEN Raise(st, "end_timeout")
    ELSE Return(st, "end")

\* a raise where the handler passes
OnDecodeErrorRaise(st) == Raise(st, "JSONDecodeError")

\* except json.JSONDecodeError: pass
OnDecodeError(st) == st

\* an error event that is ignored
OnErrorIgnore(st, data) == st

\* raise TavorError(f"Command error: {data.get('error', 'Unknown error')}")
OnError(st, data) == Raise(st, "error_event")

\* the branches that call data.get(...)
ReadsPayload(event) == event \in {START, OUTPUT, STATUS, END, ERROR}

\* The body of `for sse_event in parse_sse_stream(...)`
DispatchEvent(st, e) ==
    LET data == json_loads(e.data)
        seen == [st EXCEPT !.dispatched = Append(@, e)]
    IN  IF ~data.valid THEN OnDecodeError(seen)
        ELSE IF ReadsPayload(e.event) /\ ~data.object
        THEN Raise(seen, "AttributeError")   \* data.get of a list, a number, ...
        ELSE IF e.event = START THEN [seen EXCEPT !.command_id = data.command_id]
        ELSE IF e.event = OUTPUT THEN OnOutput(seen, data)
        ELSE IF e.event = STATUS THEN OnStatus(seen, data)
        ELSE IF e.event = END THEN OnEnd(seen, data)
        ELSE IF e.event = ERROR THEN OnError(seen, data)
        ELSE IF e.event = TIMEOUT THEN Raise(seen, "timeout_event")
        ELSE seen

RECURSIVE DispatchAll(_, _)
DispatchAll(st, evs) ==
    IF evs = <<>> \/ st.run_state # "streaming" THEN st
    ELSE DispatchAll(DispatchEvent(st, Head(evs)), Tail(evs))

\* options.timeout and (time.time() - start_time) > options.timeout
TimedOut == IsSet(timeout) /\ elapsed > timeout

\* a loop body that tests the timeout for a blank message too
ProcessMessageTimesBlank(st, message) ==
    LET s2 == IF IsBlank(message) THEN st
              ELSE DispatchAll(st, parse_sse_stream(message \o BLANK_LINE))
    IN  IF s2.run_state = "streaming" /\ TimedOut
        THEN Raise(s2, "local_timeout") ELSE s2

\* The body of `for message in messages`
ProcessMessage(st, message) ==
    IF IsBlank(message) THEN st              \* if not message.strip(): continue
    ELSE LET s2 == DispatchAll(st, parse_sse_stream(message \o BLANK_LINE))
         IN  IF s2.run_state = "streaming" /\ TimedOut
             THEN Raise(s2, "local_timeout") ELSE s2

RECURSIVE ProcessMessages(_, _)
ProcessMessages(st, messages) ==
    IF messages = <<>> \/ st.run_state # "streaming" THEN st
    ELSE ProcessMessages(ProcessMessage(st, Head(messages)), Tail(messages))

\* buffer = messages.pop() if messages else ""
DropRemainder(messages) == <<>>

Remainder(messages) == IF messages = <<>> THEN <<>> ELSE messages[Len(messages)]

Locals ==
    [stdout |-> stdout, stderr |-> stderr, exit_code |-> exit_code,
     status |-> status, command_id |-> command_id, run_state |-> run_state,
     how |-> how, result |-> result, dispatched |-> dispatched,
     callbacks |-> callbacks]

SetLocals(st) ==
    /\ stdout' = st.stdout
    /\ stderr' = st.stderr
    /\ exit_code' = st.exit_code
    /\ status' = st.status
    /\ command_id' = st.command_id
    /\ run_state' = st.run_state
    /\ how' = st.how
    /\ result' = st.result
    /\ dispatched' = st.dispatched
    /\ callbacks' = st.callbacks

(***************************************************************************)
(* BoxHandle._run_with_streaming: the steps of a run                       *)
(***************************************************************************)
HttpStatuses == {200, 404, 500}

RECURSIVE SeqsUpTo(_, _)
SeqsUpTo(S, n) ==
    IF n = 0 THEN {<<>>}
    ELSE LET shorter == SeqsUpTo(S, n - 1)
         IN  shorter \cup {Append(s, x) : s \in shorter, x \in S}

\* _run_with_streaming is entered with on_stdout and on_stderr registered or
\* not as `outs` and `errs` allow and with options.timeout one of `timeouts`;
\* the service will write up to n of `records`
StreamStart(records, n, outs, errs, timeouts) ==
    /\ sent \in SeqsUpTo(records, n)
    /\ wire = <<>>
    /\ http_status = 0
    /\ resp_body = "none"
    /\ buffer = <<>>
    /\ stdout = <<>>
    /\ stderr = <<>>
    /\ exit_code = 0
    /\ status = "queued"
    /\ command_id = Null
    /\ on_stdout \in outs
    /\ on_stderr \in errs
    /\ on_stdout \/ on_stderr     \* use_streaming
    /\ timeout \in timeouts
    /\ elapsed = 0
    /\ run_state = "init"
    /\ how = "none"
    /\ result = <<>>
    /\ dispatched = <<>>
    /\ callbacks = <<>>
    \* the handle that runs the command: a blocking handle whose run() found
    \* the box running in the first iteration of wait_until_ready(); from here
    \* on run_state follows the streaming executor
    /\ kind = "blocking"
    /\ scope = "none"
    /\ exit_kind = "none"
    /\ closed = FALSE
    /\ box = <<[status |-> "running", details |-> Null, hostname |-> <<<<"h">>>>]>>
    /\ pc = "submit"
    /\ op = "run"
    /\ op_closed = FALSE
    /\ entry_running = FALSE
    /\ op_requests = 2
    /\ outcome = "pending"
    /\ ncalls = 1
    /\ wait_timeout = 1
    /\ wait_elapsed = 0
    /\ iterations = 1
    /\ nfetch = 2
    /\ on_script = FALSE
    /\ last_fetch = "running"
    /\ cause_status = "none"
    /\ cause_details = Null
    /\ err_status = "none"
    /\ err_details = Null
    /\ submit_seen = "none"
    /\ npoll = 0
    /\ cmd_data = <<>>
    /\ last_stdout_len = 0
    /\ last_stderr_len = 0
    /\ port = 0
    /\ url = <<>>
    /\ flows = [f \in Flows |-> IdleFlow]
    /\ commands = <<>>
    /\ deletes_sent = 0
    /\ deletes_failed = 0
    /\ counting = TRUE

StreamInit == StreamStart(Records, MaxRecords, BOOLEAN, BOOLEAN, {NoTimeout})

\* both callbacks registered
EventsInit == StreamStart(EventRecords, MaxEvents, {TRUE}, {TRUE}, {NoTimeout})

\* What a response carries: a JSON object, JSON of another type, or no JSON
\* at all, the last with or without a Content-Type of application/json.
\* The body of a response below 400 to the streaming POST is the event stream.
ResponseBodies == {"object", "list", "not_json_typed", "not_json"}

\* Tavor._request (k = "blocking"; the streaming POST repeats its code) and
\* AsyncTavor._request (k = "async") on a response with this status and body:
\* "returned", or the error raised.  "HTTPError" stands for the exception
\* map_status_to_exception builds from the status code.
RequestOutcome(k, code, body) ==
    IF k = "blocking"
    THEN IF code < 400 THEN "returned"
         \* the second response.json(), outside the try, when the header says JSON
         ELSE IF body = "not_json_typed" THEN "JSONDecodeError"
         ELSE "HTTPError"
    ELSE IF code < 400 THEN "returned"
         ELSE IF body = "list" THEN "AttributeError"     \* data.get of a list
         ELSE "HTTPError"

\* response = self._client.session.post(..., stream=True, timeout=None)
\* answered with one of `codes`, an error carrying one of `bodies`
Open(codes, bodies) ==
    /\ run_state = "init"
    /\ \E code \in codes, body \in bodies :
         /\ http_status' = code
         /\ IF code >= 400
            THEN /\ run_state' = "raised"
                 /\ how' = IF RequestOutcome("blocking", code, body) = "HTTPError"
                           THEN "http_error"
                           ELSE RequestOutcome("blocking", code, body)
                 /\ wire' = <<>>
                 /\ resp_body' = body
            ELSE /\ run_state' = "streaming"
                 /\ how' = how
                 /\ wire' = SerializeAll(sent)
                 /\ resp_body' = "stream"
    /\ UNCHANGED <<sent, buffer, stdout, stderr, exit_code, status, command_id,
                   on_stdout, on_stderr, timeout, elapsed, result, dispatched,
                   callbacks>>

\* the service answers with 200, 404 or 500, errors carrying a JSON object
OpenStream == Open(HttpStatuses, {"object"})

\* One iteration of `for chunk in response.iter_content(...)`: the next n
\* characters of the body arrive as one chunk, n being one of `sizes`.
Recv(sizes) ==
    /\ run_state = "streaming"
    /\ \E n \in sizes :
         \E messages \in {Split(buffer \o SubSeq(wire, 1, n), BLANK_LINE)} :
           \E st \in {ProcessMessages(Locals, SubSeq(messages, 1, Len(messages) - 1))} :
             /\ wire' = DropFirst(wire, n)
             /\ buffer' = Remainder(messages)
             /\ SetLocals(st)
    /\ UNCHANGED <<sent, http_status, resp_body, on_stdout, on_stderr, timeout,
                   elapsed>>

\* a chunk of any size
RecvChunk == Recv(1..Len(wire))

\* the sizes of the chunks that end with a record's blank line
RecordEnds == {n \in 2..Len(wire) : wire[n - 1] = NL /\ wire[n] = NL}

\* a chunk of one or more whole records
RecvRecords == Recv(RecordEnds)

\* The connection closes: the loop ends and the accumulated result is returned.
StreamClose ==
    /\ run_state = "streaming"
    /\ wire = <<>>
    /\ SetLocals(Return(Locals, "eof"))
    /\ UNCHANGED <<sent, wire, http_status, resp_body, buffer, on_stdout, on_stderr,
                   timeout,
                   elapsed>>

(***************************************************************************)
(* The box handle: BoxHandle (client.py) and AsyncBoxHandle                *)
(* (async_client.py).  One step of the model is the code between two       *)
(* requests; the service answers every request as it likes.                *)
(***************************************************************************)

\* models.py BoxStatus
CREATING == "creating"
QUEUED == "queued"
PROVISIONING == "provisioning"
BOOTING == "booting"
RUNNING == "running"
PAUSED == "paused"
STOPPED == "stopped"
FAILED == "failed"
FINISHED == "finished"
ERROR_STATUS == "error"

BoxStatus ==
    {CREATING, QUEUED, PROVISIONING, BOOTING, RUNNING, PAUSED, STOPPED, FAILED,
     FINISHED, ERROR_STATUS}

\* models.py Box, reduced to the fields the handle reads
\* an Optional[str] field holding text: None is <<>>, the string t is <<t>>
NoneStr == <<>>
Some(t) == <<t>>

Box(s, d, h) == [status |-> s, details |-> d, hostname |-> h]

\* The box states the service reports: a hostname once the box runs, details
\* with a failure.
ServerBoxes ==
    {Box(s, Null, NoneStr) : s \in {CREATING, QUEUED, PROVISIONING, BOOTING, STOPPED, FINISHED}}
    \cup {Box(s, Null, Some(<<"h">>)) : s \in {RUNNING, PAUSED}}
    \cup {Box(s, d, NoneStr) : s \in {FAILED, ERROR_STATUS}, d \in {Null, "d1", "d2"}}

\* The answers to GET /api/v2/boxes/{id}
FetchResponses ==
    {[code |-> 200, box |-> b] : b \in ServerBoxes}
    \cup {[code |-> c, box |-> Box(QUEUED, Null, NoneStr)] : c \in {404, 500}}

\* Tavor._request: a status of 400 or more raises
IsError(code) == code >= 400

\* a readiness test that also lets a paused box pass
IsReadyLoose(s) == s \in {RUNNING, PAUSED}

\* wait_until_ready's `if self.status == BoxStatus.RUNNING`
IsReady(s) == s = RUNNING

\* wait_until_ready's `if self.status in [FAILED, STOPPED, FINISHED, ERROR]`
IsFailure(s) == s \in {FAILED, STOPPED, FINISHED, ERROR_STATUS}

\* the `status` property when it does not fetch
CachedStatus == IF box = <<>> THEN QUEUED ELSE box[1].status

CachedDetails == IF box = <<>> THEN Null ELSE box[1].details

CachedHostname == IF box = <<>> THEN NoneStr ELSE box[1].hostname

\* wait_until_ready(timeout=300), in units of the default
DefaultWaitTimeout == 1

\* the polling script of a box that starts normally
Script == <<QUEUED, PROVISIONING, BOOTING, RUNNING>>

PublicOps ==
    {"refresh", "status", "wait_until_ready", "run", "stop", "close", "pause",
     "resume", "expose_port", "get_public_url"}

\* the first position of each operation
Entry(o) ==
    CASE o = "refresh" -> "refresh"
      [] o = "status" -> "status"
      [] o \in {"wait_until_ready", "run"} -> "wait_refresh"
      [] o \in {"stop", "close"} -> "stop"
      [] o \in {"pause", "resume"} -> "post"
      [] o = "expose_port" -> "expose"
      [] o = "get_public_url" -> "url"

\* BoxHandle.__init__ / AsyncBoxHandle.__init__, reached through create_box()
\* (scope "none") or through `with client.box()` (scope "body")
HandleWith(scopes, counted, boxes, ports) ==
    /\ kind \in {"blocking", "async"}
    /\ scope \in scopes
    /\ exit_kind = "none"
    /\ closed = FALSE
    /\ box \in boxes
    /\ pc = "idle"
    /\ op = "none"
    /\ op_closed = FALSE
    /\ entry_running = FALSE
    /\ op_requests = 0
    /\ outcome = "returned"
    /\ ncalls = 0
    /\ wait_timeout = NoTimeout
    /\ wait_elapsed = 0
    /\ iterations = 0
    /\ nfetch = 0
    /\ on_script = TRUE
    /\ last_fetch = "none"
    /\ cause_status = "none"
    /\ cause_details = Null
    /\ err_status = "none"
    /\ err_details = Null
    /\ submit_seen = "none"
    /\ npoll = 0
    /\ cmd_data = <<>>
    /\ last_stdout_len = 0
    /\ last_stderr_len = 0
    /\ port \in ports
    /\ url = <<>>
    /\ flows = [f \in Flows |-> IdleFlow]
    /\ commands = <<>>
    /\ deletes_sent = 0
    /\ deletes_failed = 0
    /\ counting = counted
    \* the streaming executor is modelled by SpecStream
    /\ sent = <<>> /\ wire = <<>> /\ http_status = 0 /\ buffer = <<>>
    /\ resp_body = "none"
    /\ stdout = <<>> /\ stderr = <<>> /\ exit_code = 0 /\ status = "queued"
    /\ command_id = Null /\ run_state = "init" /\ how = "none"
    /\ dispatched = <<>> /\ callbacks = <<>>
    /\ on_stdout = FALSE /\ on_stderr = FALSE /\ timeout = NoTimeout /\ elapsed = 0
    /\ result = <<>>

\* a handle that has not fetched its box yet
NewHandle(scopes, counted) == HandleWith(scopes, counted, {<<>>}, {0})

HandleInit == NewHandle({"none", "body"}, TRUE)

\* a history counter after one more occurrence
Count(n) == IF counting THEN n + 1 ELSE n

\* the operation returns
Returns == pc' = "idle" /\ outcome' = "returned"

\* the operation raises
Raises(error) == pc' = "idle" /\ outcome' = error

\* models.py CommandOptions: the callbacks and the timeout a caller of run()
\* chooses (run() without options behaves as with none registered)
WaitTimeouts == {NoTimeout, 0, DefaultWaitTimeout}
Timeouts == {NoTimeout, 0, 1}
CommandOptions(timeouts, err_callbacks) ==
    [on_stdout : BOOLEAN, on_stderr : err_callbacks, timeout : timeouts]

\* the port the model's caller asks for (tests/test_client.py uses 8080)
PortArg == 8080

\* The caller calls one of the public operations `ops` of the handle; run()
\* is called with one of `options`.
CallOf(ops, options) ==
    /\ pc = "idle"
    /\ scope # "exited"
    /\ ncalls < MaxCalls
    /\ \E o \in ops :
         /\ op' = o
         /\ pc' = Entry(o)
         /\ wait_timeout' \in IF o = "wait_until_ready" THEN WaitTimeouts
                              ELSE {DefaultWaitTimeout}
         /\ IF o = "run"
            THEN \E opt \in options :
                   /\ on_stdout' = opt.on_stdout
                   /\ on_stderr' = opt.on_stderr
                   /\ timeout' = opt.timeout
            ELSE /\ on_stdout' = FALSE
                 /\ on_stderr' = FALSE
                 /\ timeout' = NoTimeout
    /\ op_closed' = closed
    /\ entry_running' = (op' \in {"wait_until_ready", "run"} /\ CachedStatus = RUNNING)
    /\ op_requests' = 0
    /\ outcome' = "pending"
    /\ ncalls' = Count(ncalls)
    /\ wait_elapsed' = 0
    /\ iterations' = 0
    /\ nfetch' = 0
    /\ on_script' = TRUE
    /\ last_fetch' = "none"
    /\ cause_status' = "none"
    /\ cause_details' = Null
    /\ err_status' = "none"
    /\ err_details' = Null
    /\ submit_seen' = "none"
    /\ npoll' = 0
    /\ elapsed' = 0
    /\ result' = <<>>
    /\ callbacks' = <<>>
    /\ cmd_data' = <<>>
    /\ last_stdout_len' = 0
    /\ last_stderr_len' = 0
    /\ port' = (IF op' \in {"get_public_url", "expose_port"} THEN PortArg ELSE 0)
    /\ url' = <<>>
    /\ UNCHANGED <<kind, counting, flowv, closed, box, scopev, delv, execv>>

\* any public operation; run() with or without on_stdout and a timeout
Call == CallOf(PublicOps, CommandOptions({NoTimeout, 1}, {FALSE}))

\* a fetch that caches the body of an error answer as well
FetchCachesError(resp) ==
    /\ op_requests' = Count(op_requests)
    /\ nfetch' = Count(nfetch)
    /\ box' = <<resp.box>>
    /\ last_fetch' = (IF IsError(resp.code) THEN "none" ELSE resp.box.status)
    /\ on_script' = on_script

\* refresh() after its closed check: GET /api/v2/boxes/{id} answered by resp
Fetch(resp) ==
    /\ op_requests' = Count(op_requests)
    /\ nfetch' = Count(nfetch)
    /\ IF IsError(resp.code)
       THEN /\ box' = box
            /\ last_fetch' = "none"
            /\ on_script' = (on_script /\ nfetch >= Len(Script))
       ELSE /\ box' = <<resp.box>>
            /\ last_fetch' = resp.box.status
            /\ on_script' = /\ on_script
                            /\ nfetch < Len(Script) => resp.box.status = Script[nfetch + 1]

NoFetch == UNCHANGED <<box, op_requests, fetchv>>

\* the error a failed fetch raises
FetchError(resp) == IF resp.code = 404 THEN "BoxNotFoundError" ELSE "HTTPError"

ClosedError == "Box handle is closed"

BoxStartError == "Box failed to start"

\* `self.refresh()` at the head of wait_until_ready's loop
WaitRefresh ==
    /\ pc = "wait_refresh"
    /\ iterations' = Count(iterations)
    /\ IF closed
       THEN Raises(ClosedError) /\ NoFetch
       ELSE /\ nfetch < MaxFetch
            /\ \E resp \in FetchResponses :
                 /\ Fetch(resp)
                 /\ IF IsError(resp.code)
                    THEN Raises(FetchError(resp))
                    ELSE pc' = "wait_running" /\ outcome' = outcome
    /\ UNCHANGED <<urlv, pollv, kind, counting, flowv, entry_running, closed, op,
                   op_closed, ncalls, wait_timeout, wait_elapsed,
                   cause_status, cause_details, err_status, err_details,
                   submit_seen, npoll, scopev, delv, streamv, optv>>

\* `self.status`: the blocking handle fetches and returns what it fetched, the
\* async handle returns what it has cached.
StatusReads ==
    IF kind = "blocking" THEN FetchResponses
    ELSE {[code |-> 200, box |-> Box(CachedStatus, CachedDetails, CachedHostname)]}

CanRead == kind = "blocking" => nfetch < MaxFetch

\* the status the handle held before the read
StatusBeforeRead(resp) == CachedStatus

\* the value of `self.status`: the status of the box just read
StatusOf(resp) == resp.box.status

Read(resp) == IF kind = "blocking" THEN Fetch(resp) ELSE NoFetch

\* `if self.status == BoxStatus.RUNNING: return self`
WaitCheckRunning ==
    /\ pc = "wait_running"
    /\ CanRead
    /\ \E resp \in StatusReads :
         /\ Read(resp)
         /\ IF IsError(resp.code) THEN Raises(FetchError(resp))
            ELSE IF ~IsReady(StatusOf(resp)) THEN pc' = "wait_failure" /\ outcome' = outcome
            ELSE IF op = "run" THEN pc' = "submit" /\ outcome' = outcome
            ELSE Returns
    /\ UNCHANGED <<urlv, pollv, kind, counting, flowv, entry_running, closed, op,
                   op_closed, ncalls, waitv, submit_seen, npoll,
                   scopev, delv, streamv, optv>>

\* `if self.status in [FAILED, STOPPED, FINISHED, ERROR]:`
WaitCheckFailure ==
    /\ pc = "wait_failure"
    /\ CanRead
    /\ \E resp \in StatusReads :
         /\ Read(resp)
         /\ IF IsError(resp.code)
            THEN Raises(FetchError(resp)) /\ UNCHANGED <<cause_status, cause_details>>
            ELSE IF IsFailure(StatusOf(resp))
            THEN /\ pc' = "wait_message"
                 /\ outcome' = outcome
                 /\ cause_status' = StatusOf(resp)
                 /\ cause_details' = resp.box.details
            ELSE /\ pc' = "wait_timeout"
                 /\ outcome' = outcome
                 /\ UNCHANGED <<cause_status, cause_details>>
    /\ UNCHANGED <<urlv, pollv, kind, counting, flowv, entry_running, closed, op,
                   op_closed, ncalls, wait_timeout, wait_elapsed,
                   iterations, err_status, err_details, submit_seen, npoll,
                   scopev, delv, streamv, optv>>

\* error_msg = f"Box failed to start: {self.status}", then the details of
\* self._box are appended and TavorError(error_msg) is raised
WaitRaiseFailure ==
    /\ pc = "wait_message"
    /\ CanRead
    /\ \E resp \in StatusReads :
         /\ Read(resp)
         /\ IF IsError(resp.code)
            THEN Raises(FetchError(resp)) /\ UNCHANGED <<err_status, err_details>>
            ELSE /\ Raises(BoxStartError)
                 /\ err_status' = StatusOf(resp)
                 /\ err_details' = resp.box.details
    /\ UNCHANGED <<urlv, pollv, kind, counting, flowv, entry_running, closed, op,
                   op_closed, ncalls, wait_timeout, wait_elapsed,
                   iterations, cause_status, cause_details, submit_seen, npoll,
                   scopev, delv, streamv, optv>>

\* a wait_until_ready that stops the box when it times out
WaitSleepStops ==
    /\ pc = "wait_timeout"
    /\ IF IsSet(wait_timeout) /\ wait_elapsed > wait_timeout
       THEN /\ Raises("CommandTimeoutError")
            /\ wait_elapsed' = wait_elapsed
            /\ op_requests' = Count(op_requests)
            /\ deletes_sent' = deletes_sent + 1
            /\ deletes_failed' = deletes_failed
            /\ closed' = TRUE
       ELSE /\ pc' = "wait_refresh"
            /\ outcome' = outcome
            /\ wait_elapsed' \in IF ~IsSet(wait_timeout) THEN {wait_elapsed}
                                  ELSE {wait_elapsed, wait_elapsed + 1}
            /\ UNCHANGED <<op_requests, delv, closed>>
    /\ UNCHANGED <<urlv, pollv, kind, counting, flowv, entry_running, box, op,
                   op_closed, ncalls,
                   wait_timeout, iterations, fetchv, cause_status, cause_details,
                   err_status, err_details, submit_seen, npoll, scopev,
                   streamv, optv>>

\* `if timeout and (time.time() - start_time) > timeout: raise ...`, else
\* time.sleep(poll_interval), during which the clock may reach the next unit
WaitSleep ==
    /\ pc = "wait_timeout"
    /\ IF IsSet(wait_timeout) /\ wait_elapsed > wait_timeout
       THEN Raises("CommandTimeoutError") /\ wait_elapsed' = wait_elapsed
       ELSE /\ pc' = "wait_refresh"
            /\ outcome' = outcome
            /\ wait_elapsed' \in IF ~IsSet(wait_timeout) THEN {wait_elapsed}
                                  ELSE {wait_elapsed, wait_elapsed + 1}
    /\ UNCHANGED <<urlv, pollv, kind, counting, flowv, entry_running, closed, box, op,
                   op_closed, op_requests, ncalls,
                   wait_timeout, iterations, fetchv, cause_status, cause_details,
                   err_status, err_details, submit_seen, npoll, scopev, delv,
                   streamv, optv>>

\* a polling loop that ends only when the command is done
IsDoneCommand(s) == s = "done"

\* models.py CommandStatus values that end the polling loop
IsTerminalCommand(s) == s \in {"done", "failed", "error"}

\* BoxHandle.run(): use_streaming = options and (options.on_stdout or
\* options.on_stderr); AsyncBoxHandle.run() has no streaming branch
UseStreaming == kind = "blocking" /\ (on_stdout \/ on_stderr)

\* run() after wait_until_ready(): the command is submitted.  The blocking
\* handle streams when a callback is registered (_run_with_streaming's POST),
\* else it queues the command (_queue_command); the async handle always queues.
Submit ==
    /\ pc = "submit"
    /\ submit_seen' = last_fetch
    /\ op_requests' = Count(op_requests)
    /\ \E code \in HttpStatuses :
         IF IsError(code) THEN Raises("HTTPError")
         ELSE IF UseStreaming
         THEN pc' = "streaming" /\ outcome' = outcome
         ELSE pc' = "poll" /\ outcome' = outcome
    /\ UNCHANGED <<urlv, pollv, kind, counting, flowv, entry_running, closed, box, op,
                   op_closed, ncalls, waitv, fetchv, npoll,
                   scopev, delv, streamv, optv>>

\* _run_with_streaming after its POST, which SpecStream models step by step:
\* here only its end is kept
Streamed ==
    /\ pc = "streaming"
    /\ \/ Returns
       \/ Raises("CommandTimeoutError")
       \/ Raises("TavorError")
    /\ UNCHANGED <<urlv, pollv, kind, counting, flowv, entry_running, closed, box, op,
                   op_closed, op_requests, ncalls, waitv,
                   fetchv, submit_seen, npoll, scopev, delv, streamv, optv>>

\* the command-status responses of the service: GET .../commands/{id}
PollTexts == {<<>>, <<"a", NL, "b">>}
PollErrTexts == {<<>>, <<"e">>}
CommandResponses(out, err) ==
    [status : CommandStatus, stdout : out, stderr : err]

\* exit_code = 0 if status == CommandStatus.DONE else 1 (the blocking handle's
\* `if status == FAILED and stderr: exit_code = 1` assigns the same value)
ExitCodeLenient(s, err) ==
    IF s = "done" \/ (s = "failed" /\ err = <<>>) THEN 0 ELSE 1

ExitCode(s, err) == IF s = "done" THEN 0 ELSE 1

\* CommandResult(id=..., status=status, stdout=cmd_data.get("stdout") or "",
\*               stderr=cmd_data.get("stderr") or "", exit_code=exit_code)
PollResult(data) ==
    [id |-> "c1", status |-> data.status, stdout |-> data.stdout,
     stderr |-> data.stderr, exit_code |-> ExitCode(data.status, data.stderr)]

\* a new_output that is the whole text every time
NewOutputWhole(registered, text, last_len) ==
    IF registered /\ Truthy(text) THEN text ELSE <<>>

\* AsyncBoxHandle.run(): new_output = cmd_data["stdout"][last_stdout_len:]
NewOutput(registered, text, last_len) ==
    IF registered /\ Truthy(text) THEN DropFirst(text, last_len) ELSE <<>>

\* for line in new_output.splitlines(keepends=True): callback(line)
PollCalls(stream, new_output, n) ==
    LET ls == SplitLinesKeepEnds(new_output)
    IN  [i \in 1..Len(ls) |-> [stream |-> stream, line |-> ls[i], event_no |-> n]]

\* The callbacks of one polling iteration.  Only AsyncBoxHandle.run() calls
\* them: BoxHandle.run() polls only when no callback is registered.
PollCallbacks(data) ==
    IF kind = "async"
    THEN LET new_out == NewOutput(on_stdout, data.stdout, last_stdout_len)
             new_err == NewOutput(on_stderr, data.stderr, last_stderr_len)
         IN  /\ callbacks' = callbacks \o PollCalls("stdout", new_out, npoll + 1)
                                       \o PollCalls("stderr", new_err, npoll + 1)
             /\ last_stdout_len' = IF new_out # <<>> THEN Len(data.stdout)
                                   ELSE last_stdout_len
             /\ last_stderr_len' = IF new_err # <<>> THEN Len(data.stderr)
                                   ELSE last_stderr_len
    ELSE UNCHANGED <<callbacks, last_stdout_len, last_stderr_len>>

\* One iteration of run()'s polling loop: GET the command, return when its
\* status is terminal, else check options.timeout and sleep.
PollOf(responses) ==
    /\ pc = "poll"
    /\ npoll < MaxPolls
    /\ npoll' = Count(npoll)
    /\ op_requests' = Count(op_requests)
    /\ \E code \in HttpStatuses :
         IF IsError(code)
         THEN /\ Raises("HTTPError")
              /\ UNCHANGED <<result, elapsed, callbacks, pollv>>
         ELSE \E data \in responses :
                /\ cmd_data' = <<data>>
                /\ PollCallbacks(data)
                /\ IF IsTerminalCommand(data.status)
                   THEN /\ Returns
                        /\ result' = <<PollResult(data)>>
                        /\ elapsed' = elapsed
                   ELSE IF IsSet(timeout) /\ elapsed > timeout
                   THEN Raises("CommandTimeoutError") /\ UNCHANGED <<result, elapsed>>
                   ELSE /\ pc' = "poll"
                        /\ outcome' = outcome
                        /\ result' = result
                        /\ elapsed' \in IF ~IsSet(timeout) THEN {elapsed}
                                        ELSE {elapsed, elapsed + 1}
    /\ UNCHANGED <<kind, counting, flowv, entry_running, closed, box, op, op_closed,
                   ncalls, waitv, fetchv, submit_seen, scopev, delv, execv,
                   on_stdout, on_stderr, timeout, urlv>>

\* a command that writes "a\nb" to stdout and nothing to stderr
Poll == PollOf(CommandResponses({<<"a", NL, "b">>}, {<<>>}))

\* refresh(): called by the caller, or by pause() and resume() after their POST
\* a refresh() that drops the cached box when its fetch fails
RefreshForgets ==
    /\ pc = "refresh"
    /\ IF closed
       THEN Raises(ClosedError) /\ NoFetch
       ELSE /\ nfetch < MaxFetch
            /\ \E resp \in FetchResponses :
                 /\ op_requests' = Count(op_requests)
                 /\ nfetch' = Count(nfetch)
                 /\ on_script' = on_script
                 /\ IF IsError(resp.code)
                    THEN /\ box' = <<>>
                         /\ last_fetch' = "none"
                         /\ Raises(FetchError(resp))
                    ELSE /\ box' = <<resp.box>>
                         /\ last_fetch' = resp.box.status
                         /\ Returns
    /\ UNCHANGED <<urlv, pollv, kind, counting, flowv, entry_running, closed, op,
                   op_closed, ncalls, waitv, submit_seen, npoll,
                   scopev, delv, streamv, optv>>

Refresh ==
    /\ pc = "refresh"
    /\ IF closed
       THEN Raises(ClosedError) /\ NoFetch
       ELSE /\ nfetch < MaxFetch
            /\ \E resp \in FetchResponses :
                 /\ Fetch(resp)
                 /\ IF IsError(resp.code) THEN Raises(FetchError(resp)) ELSE Returns
    /\ UNCHANGED <<urlv, pollv, kind, counting, flowv, entry_running, closed, op,
                   op_closed, ncalls, waitv, submit_seen, npoll,
                   scopev, delv, streamv, optv>>

\* the `status` property read by the caller
StatusProperty ==
    /\ pc = "status"
    /\ IF kind = "blocking" /\ closed
       THEN Raises(ClosedError) /\ NoFetch
       ELSE /\ CanRead
            /\ \E resp \in StatusReads :
                 /\ Read(resp)
                 /\ IF IsError(resp.code) THEN Raises(FetchError(resp)) ELSE Returns
    /\ UNCHANGED <<urlv, pollv, kind, counting, flowv, entry_running, closed, op,
                   op_closed, ncalls, waitv, submit_seen, npoll,
                   scopev, delv, streamv, optv>>

\* pause() and resume(): POST /api/v2/boxes/{id}/pause or /resume, then refresh()
PauseResume ==
    /\ pc = "post"
    /\ op_requests' = Count(op_requests)
    /\ \E code \in HttpStatuses :
         IF IsError(code) THEN Raises("HTTPError")
         ELSE pc' = "refresh" /\ outcome' = outcome
    /\ UNCHANGED <<urlv, pollv, kind, counting, flowv, entry_running, closed, box, op,
                   op_closed, ncalls, waitv, fetchv,
                   submit_seen, npoll, scopev, delv, streamv, optv>>

\* expose_port(): POST /api/v2/boxes/{id}/expose_port
ExposePort ==
    /\ pc = "expose"
    /\ op_requests' = Count(op_requests)
    /\ \E code \in HttpStatuses :
         IF IsError(code) THEN Raises("HTTPError") ELSE Returns
    /\ UNCHANGED <<urlv, pollv, kind, counting, flowv, entry_running, closed, box, op,
                   op_closed, ncalls, waitv, fetchv,
                   submit_seen, npoll, scopev, delv, streamv, optv>>

\* str(n) of an int, as an f-string formats it
DIGITS == <<"0", "1", "2", "3", "4", "5", "6", "7", "8", "9">>

RECURSIVE Digits(_)
Digits(n) ==
    IF n < 10 THEN <<DIGITS[n + 1]>>
    ELSE Digits(n \div 10) \o <<DIGITS[(n % 10) + 1]>>

Str(n) == IF n < 0 THEN <<"-">> \o Digits(-n) ELSE Digits(n)

HTTPS == <<"h", "t", "t", "p", "s", ":", "/", "/">>
HTTP == <<"h", "t", "t", "p", ":", "/", "/">>

\* a URL with the scheme http
PublicUrlPlain(hostname, p) == HTTP \o Str(p) \o <<"-">> \o hostname[1]

\* f"https://{port}-{self.hostname}"
PublicUrlText(hostname, p) == HTTPS \o Str(p) \o <<"-">> \o hostname[1]

\* `if not self.hostname`: None and "" are both falsy
NoHostname(hostname) == hostname = NoneStr \/ hostname = Some(<<>>)

\* Box.get_public_url on the box the handle holds
PublicUrl(b) ==
    IF b = <<>> THEN "Box information not available"
    ELSE IF NoHostname(b[1].hostname) THEN "ValueError"
    ELSE "returned"

\* the URL it returns, if it returns
UrlOf(b, p) ==
    IF PublicUrl(b) = "returned" THEN <<PublicUrlText(b[1].hostname, p)>>
    ELSE <<>>

\* get_public_url() reading the cache on either handle
GetPublicUrlCached ==
    /\ pc = "url"
    /\ pc' = "idle"
    /\ outcome' = PublicUrl(box)
    /\ url' = UrlOf(box, port)
    /\ NoFetch
    /\ UNCHANGED <<pollv, kind, counting, flowv, entry_running, closed, op,
                   op_closed, ncalls, waitv, submit_seen, npoll,
                   scopev, delv, streamv, optv, port>>

\* get_public_url(): the blocking handle refreshes first, the async handle
\* reads its cache
GetPublicUrl ==
    /\ pc = "url"
    /\ pc' = "idle"
    /\ IF kind = "async"
       THEN outcome' = PublicUrl(box) /\ url' = UrlOf(box, port) /\ NoFetch
       ELSE IF closed
       THEN outcome' = ClosedError /\ url' = <<>> /\ NoFetch
       ELSE /\ nfetch < MaxFetch
            /\ \E resp \in FetchResponses :
                 /\ Fetch(resp)
                 /\ outcome' = IF IsError(resp.code) THEN FetchError(resp)
                               ELSE PublicUrl(<<resp.box>>)
                 /\ url' = IF IsError(resp.code) THEN <<>>
                           ELSE UrlOf(<<resp.box>>, port)
    /\ UNCHANGED <<pollv, kind, counting, flowv, entry_running, closed, op,
                   op_closed, ncalls, waitv, submit_seen, npoll,
                   scopev, delv, streamv, optv, port>>

\* stop()'s guard with the guard left out
StopAlwaysSends(isClosed) == TRUE

\* stop()'s `if not self._closed:`
StopSends(isClosed) == ~isClosed

\* stop(): DELETE /api/v2/boxes/{id} and, when it succeeded, _closed = True
\* a stop() that marks the handle closed whatever the DELETE answers
DoStopClosesAnyway(runs) ==
    IF runs /\ StopSends(closed)
    THEN /\ deletes_sent' = deletes_sent + 1
         /\ op_requests' = 1
         /\ closed' = TRUE
         /\ \E code \in HttpStatuses :
              IF IsError(code)
              THEN Raises("HTTPError") /\ deletes_failed' = deletes_failed + 1
              ELSE Returns /\ deletes_failed' = deletes_failed
    ELSE /\ Returns
         /\ op_requests' = 0
         /\ UNCHANGED <<closed, delv>>

DoStop(runs) ==
    IF runs /\ StopSends(closed)
    THEN /\ deletes_sent' = deletes_sent + 1
         /\ op_requests' = 1
         /\ \E code \in HttpStatuses :
              IF IsError(code)
              THEN /\ Raises("HTTPError")
                   /\ deletes_failed' = deletes_failed + 1
                   /\ closed' = closed
              ELSE /\ Returns
                   /\ deletes_failed' = deletes_failed
                   /\ closed' = TRUE
    ELSE /\ Returns
         /\ op_requests' = 0
         /\ UNCHANGED <<closed, delv>>

\* stop() and close() called by the caller
Stop ==
    /\ pc = "stop"
    /\ DoStop(TRUE)
    /\ UNCHANGED <<urlv, pollv, kind, counting, flowv, entry_running, box, op, op_closed,
                   ncalls, waitv, fetchv, submit_seen,
                   npoll, scopev, streamv, optv>>

\* a clean-up that an exception in the block skips
CleanupOnReturnOnly(how_left) == how_left = "normal"

\* Tavor.box / AsyncTavor.box: `try: yield box_handle finally: box_handle.stop()`
CleanupRuns(how_left) == how_left \in {"normal", "exception"}

\* The block of `with client.box() as box:` is left, by reaching its end or by
\* an exception (one an operation raised, or one of the block's own).
ScopeExit ==
    /\ scope = "body"
    /\ scope' = "exited"
    /\ \E how_left \in IF pc = "idle" THEN {"normal", "exception"} ELSE {"exception"} :
         /\ exit_kind' = how_left
         /\ DoStop(CleanupRuns(how_left))
    /\ op' = "stop"
    /\ op_closed' = closed
    /\ UNCHANGED <<urlv, pollv, kind, counting, flowv, entry_running, box, ncalls, waitv,
                   fetchv, submit_seen, npoll, streamv,
                   optv>>

HandleNext ==
    \/ Call
    \/ Refresh
    \/ StatusProperty
    \/ WaitRefresh
    \/ WaitCheckRunning
    \/ WaitCheckFailure
    \/ WaitRaiseFailure
    \/ WaitSleep
    \/ Submit
    \/ Streamed
    \/ Poll
    \/ PauseResume
    \/ ExposePort
    \/ GetPublicUrl
    \/ Stop
    \/ ScopeExit

SpecHandle == HandleInit /\ [][HandleNext]_vars

(***************************************************************************)
(* The two waiting loops, wait_until_ready's and run()'s polling loop,     *)
(* against a service that answers every request and a clock that moves     *)
(* on during every sleep.  The history counters are not kept, so that a    *)
(* loop that never ends is a cycle of states.                              *)
(***************************************************************************)

\* no request is answered with an error
Responsive == outcome' \notin {"HTTPError", "BoxNotFoundError"}

\* time.sleep(poll_interval) takes time: the next timeout check reads a later
\* clock
ClockAdvances ==
    /\ (pc = "wait_timeout" /\ pc' = "wait_refresh" /\ IsSet(wait_timeout)) =>
          wait_elapsed' > wait_elapsed
    /\ (pc = "poll" /\ pc' = "poll" /\ IsSet(timeout)) => elapsed' > elapsed

LiveInit == NewHandle({"none"}, FALSE)

\* a step of the handle in this environment
Live(step) == step /\ Responsive /\ ClockAdvances

\* the caller calls wait_until_ready() or run()
LiveCall ==
    CallOf({"wait_until_ready", "run"}, CommandOptions(Timeouts, {FALSE}))

LiveNext ==
    \/ Live(LiveCall)
    \/ Live(WaitRefresh)
    \/ Live(WaitCheckRunning)
    \/ Live(WaitCheckFailure)
    \/ Live(WaitRaiseFailure)
    \/ Live(WaitSleep)
    \/ Live(Submit)
    \/ Live(Streamed)
    \/ Live(Poll)

SpecLive == LiveInit /\ [][LiveNext]_vars /\ WF_vars(LiveNext)

(***************************************************************************)
(* run() on its own: a caller that only runs commands, with every          *)
(* combination of callbacks, and a service whose command-status responses  *)
(* carry different stdout and stderr                                       *)
(***************************************************************************)
RunInit == NewHandle({"none"}, TRUE)

RunCall == CallOf({"run"}, CommandOptions({NoTimeout, 1}, BOOLEAN))

RunPoll == PollOf(CommandResponses(PollTexts, PollErrTexts))

RunNext ==
    \/ RunCall
    \/ WaitRefresh
    \/ WaitCheckRunning
    \/ WaitCheckFailure
    \/ WaitRaiseFailure
    \/ WaitSleep
    \/ Submit
    \/ Streamed
    \/ RunPoll

SpecRun == RunInit /\ [][RunNext]_vars

StreamNext == (OpenStream \/ RecvChunk \/ StreamClose) /\ UNCHANGED hvars

SpecStream == StreamInit /\ [][StreamNext]_vars

\* The streaming executor fed whole records of every event type
EventsNext == (OpenStream \/ RecvRecords \/ StreamClose) /\ UNCHANGED hvars

SpecEvents == EventsInit /\ [][EventsNext]_vars

(***************************************************************************)
(* The streaming executor with a clock: run() called with or without       *)
(* options.timeout, time passing while the loop waits for the next chunk   *)
(***************************************************************************)
TimedRecords ==
    { Record(OUTPUT, P_ab), Record(STATUS, P_failed), Record(STATUS, P_failed2),
      Record(END, P_done), Record(OUTPUT, P_bad) }

TimedInit == StreamStart(TimedRecords, MaxEvents, {TRUE}, {TRUE}, Timeouts)

\* time.time() is one second later when the next chunk arrives
Tick ==
    /\ run_state = "streaming"
    /\ elapsed < MaxElapsed
    /\ elapsed' = elapsed + 1
    /\ UNCHANGED <<sent, wire, http_status, resp_body, buffer, stdout, stderr, exit_code,
                   status, command_id, on_stdout, on_stderr, timeout,
                   run_state, how, result, dispatched, callbacks>>

TimedNext ==
    (OpenStream \/ Tick \/ RecvRecords \/ StreamClose) /\ UNCHANGED hvars

SpecTimed == TimedInit /\ [][TimedNext]_vars

(***************************************************************************)
(* The requests of the client: Tavor._request and AsyncTavor._request      *)
(* called on their own, and the POST of a streaming run, answered with     *)
(* status codes on both sides of 400 and with every kind of body           *)
(***************************************************************************)
StatusCodes == {200, 204, 399, 400, 401, 404, 500}

RequestRecords == {Record(OUTPUT, P_ab), Record(END, P_done)}

\* a client about to call _request, or a blocking handle entering
\* _run_with_streaming
RequestInit ==
    \/ NewHandle({"none"}, TRUE)
    \/ StreamStart(RequestRecords, MaxRecords, BOOLEAN, BOOLEAN, {NoTimeout})

\* self._request(method, path) / await self._request(method, path)
Request ==
    /\ pc = "idle"
    /\ op = "none"
    /\ op' = "request"
    /\ op_requests' = Count(op_requests)
    /\ \E code \in StatusCodes, body \in ResponseBodies :
         /\ http_status' = code
         /\ resp_body' = body
         /\ outcome' = RequestOutcome(kind, code, body)
    /\ UNCHANGED <<sent, wire, buffer, stdout, stderr, exit_code, status,
                   command_id, run_state, how, dispatched, callbacks, optv>>
    /\ UNCHANGED <<kind, scopev, closed, box, pc, op_closed, entry_running,
                   ncalls, waitv, fetchv, submit_seen, npoll, pollv, delv,
                   counting, flowv, urlv>>

\* the POST of _run_with_streaming
StreamRequest == op = "run" /\ Open(StatusCodes, ResponseBodies)

RequestNext ==
    \/ Request
    \/ (StreamRequest \/ RecvRecords \/ StreamClose) /\ UNCHANGED hvars

SpecRequest == RequestInit /\ [][RequestNext]_vars

(***************************************************************************)
(* Claims about the streaming executor (checked under SpecStream)          *)
(***************************************************************************)
\* The run is over, by a return or by a raise
RunOver == run_state \in {"returned", "raised"}

\* Dispatching e ends the run: an end, error or timeout event, or a status
\* event naming no CommandStatus, with a payload json.loads accepts.
RunEnding(e) ==
    LET d == json_loads(e.data)
    IN  /\ d.valid
        /\ \/ e.event \in {END, ERROR, TIMEOUT}
           \/ ReadsPayload(e.event) /\ ~d.object
           \/ e.event = STATUS /\ d.status \notin CommandStatus

\* The events up to and including the first one that ends the run
UpToEnding(evs) ==
    LET ends == {i \in 1..Len(evs) : RunEnding(evs[i])}
    IN  IF ends = {} THEN evs ELSE SubSeq(evs, 1, Min(ends))

\* The text of output field `stream` carried by the events dispatched so far
Carried(stream) ==
    LET outs == SelectSeq(dispatched,
                    LAMBDA e : e.event = OUTPUT /\ json_loads(e.data).valid)
    IN  Concat([i \in 1..Len(outs) |->
                  IF stream = "stdout" THEN json_loads(outs[i].data).stdout
                  ELSE json_loads(outs[i].data).stderr])

\* The arguments the callback of `stream` was invoked with, in order
CallbackArgs(stream) ==
    LET cs == SelectSeq(callbacks, LAMBDA c : c.stream = stream)
    IN  [i \in 1..Len(cs) |-> cs[i].line]

Registered(stream) == IF stream = "stdout" THEN on_stdout ELSE on_stderr

WithoutNL(text) == SelectSeq(text, LAMBDA c : c # NL)

\* The lines of `text` that are ended by a line terminator
WholeLines(text) ==
    LET parts == Split(text, <<NL>>) IN SubSeq(parts, 1, Len(parts) - 1)

\* C1 (as claimed): once the run is over, every one of the N records sent has
\* been dispatched, with its (event, data) pair and in order, whatever the
\* chunking.
C1_AllRecordsDispatched ==
    (RunOver /\ how # "http_error") => dispatched = EventsOf(sent)

\* C1 (amended): whatever the chunking, the events dispatched are at every
\* moment a prefix of the (event, data) pairs of the records sent; once the
\* whole text has been received they are exactly those pairs up to and
\* including the first record whose dispatch ends the run, so all N of them
\* when no record ends the run.
C1_ChunkingIndependent ==
    /\ IsPrefix(dispatched, UpToEnding(EventsOf(sent)))
    /\ (RunOver /\ how # "http_error") => dispatched = UpToEnding(EventsOf(sent))
    /\ (run_state = "streaming" /\ wire = <<>>) => dispatched = EventsOf(sent)

\* C1 witness: the first of two records has been dispatched and the chunk
\* boundary fell between the two line terminators that end the second.
C1_Witness ==
    /\ run_state = "streaming"
    /\ Len(sent) = 2
    /\ Len(dispatched) = 1
    /\ wire = <<NL>>
    /\ buffer # <<>>
    /\ buffer[Len(buffer)] = NL

\* C2 (as claimed): a callback is invoked only with whole lines, a partial
\* trailing line being held back until its terminator arrives: the arguments
\* of on_stdout are the terminated lines of the stdout text carried so far.
C2_WholeLinesOnly ==
    on_stdout => CallbackArgs("stdout") = WholeLines(Carried("stdout"))

\* C3: every byte of stdout (stderr) carried by the output events is passed to
\* on_stdout (on_stderr) at most once and in arrival order: the arguments of
\* the callback, concatenated, are the carried text without its \n, and the
\* invocations follow the order of the events.
C3_NoRedelivery ==
    /\ \A stream \in {"stdout", "stderr"} :
         Concat(CallbackArgs(stream)) =
             IF Registered(stream) THEN WithoutNL(Carried(stream)) ELSE <<>>
    /\ \A i, j \in 1..Len(callbacks) :
         i < j => callbacks[i].event_no <= callbacks[j].event_no

\* C3 witness: two output events have fired callbacks of both streams
C3_Witness ==
    /\ on_stdout /\ on_stderr
    /\ Len(callbacks) >= 4
    /\ \E i, j \in 1..Len(callbacks) :
         /\ callbacks[i].stream = "stderr"
         /\ callbacks[j].stream = "stdout"
         /\ callbacks[i].event_no < callbacks[j].event_no

(***************************************************************************)
(* Claims about the box handle, checked under SpecHandle.                  *)
(***************************************************************************)

\* the flow of control is inside wait_until_ready's loop
InWait ==
    pc \in {"wait_refresh", "wait_running", "wait_failure", "wait_message",
            "wait_timeout"}

\* the statuses the specification calls terminal and non-running
TerminalNonRunning == {PAUSED, STOPPED, FAILED, FINISHED, ERROR_STATUS}

\* the scoped block was left through the clean-up
ScopeLeft == scope = "exited"

\* C4: run() sends its command-submit POST only when the most recent status
\* fetch of that run() call reported running; while no fetch reports running
\* the flow of control never reaches the submit.
C4_SubmitOnlyWhenRunning ==
    /\ submit_seen \in {"none", RUNNING}
    /\ pc \in {"submit", "streaming", "poll"} => last_fetch = RUNNING

C4_Witness ==
    /\ op = "run"
    /\ submit_seen = RUNNING
    /\ iterations >= 2
    /\ pc = "poll"

\* C5: once a stop() has succeeded the handle stays closed and no further
\* DELETE is sent, by stop() or by close(); the handle is closed by exactly
\* one successful DELETE, which is the only DELETE when none failed before.
C5_StopIdempotent ==
    /\ [](closed => /\ deletes_sent - deletes_failed = 1
                    /\ deletes_failed = 0 => deletes_sent = 1)
    /\ [][closed => (closed' /\ deletes_sent' = deletes_sent)]_vars

C5_Witness ==
    /\ closed
    /\ op \in {"stop", "close"}
    /\ op_closed
    /\ pc = "idle"
    /\ outcome = "returned"
    /\ scope = "none"
    /\ deletes_sent = 1

\* C6: an operation other than stop() and close() that is called on a closed
\* handle sends no request and ends with the closed-handle error.
C6_ClosedHandleRejects ==
    (op_closed /\ op \notin {"stop", "close", "none"}) =>
        /\ op_requests = 0
        /\ outcome \in {"pending", ClosedError}

\* C7 as stated: when the scoped block has been left, exactly one DELETE has
\* been sent.
C7_ExactlyOneDelete == ScopeLeft => deletes_sent = 1

\* C7: when the scoped block has been left, on either exit path, a DELETE has
\* been sent, at most one DELETE has succeeded, none was sent after it, and
\* exactly one was sent when no DELETE failed.
C7_CleanupOnEveryExit ==
    ScopeLeft =>
        /\ deletes_sent >= 1
        /\ deletes_sent - deletes_failed <= 1
        /\ closed <=> deletes_sent - deletes_failed = 1
        /\ deletes_failed = 0 => deletes_sent = 1

C7_Witness ==
    /\ ScopeLeft
    /\ exit_kind = "exception"
    /\ op_closed
    /\ deletes_sent = 1

\* C8: wait_until_ready fetches the status once per iteration of its loop, and
\* when the first four fetches are answered queued, provisioning, booting,
\* running it returns after those four: there is no fifth fetch.
C8_OneFetchPerIteration ==
    op \in {"wait_until_ready", "run"} =>
        /\ nfetch <= iterations
        /\ on_script => nfetch <= Len(Script)
        /\ (op = "wait_until_ready" /\ on_script /\ nfetch = Len(Script)
            /\ outcome # "pending") => outcome = "returned"

\* C9: once a fetch of wait_until_ready has reported paused, stopped, failed,
\* finished or error, the call does not fetch again and does not go back to
\* the head of its loop, and it ends with the box-start error.
C9_FailsAtTerminalStatus ==
    [][(InWait /\ last_fetch \in TerminalNonRunning /\ scope' = scope) =>
          /\ nfetch' # nfetch + 1
          /\ pc' # "wait_refresh"
          /\ pc' = "idle" => outcome' = BoxStartError]_vars

\* C10: the box-start error names the status that the failure check saw, a
\* terminal non-running one, with the details of the box state fetched with it.
C10_ErrorCarriesObservedState ==
    outcome = BoxStartError =>
        /\ err_status \in TerminalNonRunning
        /\ err_status = cause_status
        /\ err_details = cause_details

\* C12: wait_until_ready returns only when the most recent status fetch of
\* that call reported running; it fetches at least once, also when the cached
\* status was running when it was called.
C12_DecidesFromFetch ==
    (op = "wait_until_ready" /\ outcome = "returned") =>
        /\ counting => nfetch >= 1
        /\ last_fetch = RUNNING

C12_Witness ==
    /\ op = "wait_until_ready"
    /\ outcome = "returned"
    /\ entry_running
    /\ iterations >= 2

(***************************************************************************)
(* Claims about the waiting loops, checked under SpecLive.                 *)
(***************************************************************************)

\* a status that is neither running nor terminal
Pending == {CREATING, QUEUED, PROVISIONING, BOOTING}

\* C11: while wait_until_ready is under way with a timeout given, either it
\* fails with the timeout error or a fetch reports running or a terminal
\* status: a box that stays pending does not keep it polling forever.
C11_WaitTimesOut ==
    (InWait /\ wait_timeout # NoTimeout) ~>
        (outcome = "CommandTimeoutError" \/ last_fetch \notin Pending \cup {"none"})

\* the same for the timeouts that Python takes as true
WaitTimesOutWhenSet ==
    (InWait /\ IsSet(wait_timeout)) ~>
        (outcome = "CommandTimeoutError" \/ last_fetch \notin Pending \cup {"none"})

(***************************************************************************)
(* run() in polling mode                                                   *)
(***************************************************************************)
\* a callback is registered in the options run() was called with
CallbackRegistered == on_stdout \/ on_stderr

TerminalCommandStatuses == {"done", "failed", "error"}

\* run() has returned a result from its polling loop
PollingResult == op = "run" /\ result # <<>>

\* C13: in both handles run() streams if and only if on_stdout or on_stderr is
\* registered and polls otherwise, and in polling mode no callback is invoked.
\* AsyncBoxHandle.run() polls whatever is registered and calls the callbacks
\* from its polling loop, so the statement fails for the async handle.
C13_ModeByCallbacks ==
    op = "run" =>
        /\ pc = "streaming" => CallbackRegistered
        /\ pc = "poll" => ~CallbackRegistered
        /\ (pc = "poll" \/ PollingResult) => callbacks = <<>>

\* the same statement for the blocking handle alone
BlockingModeByCallbacks == kind = "blocking" => C13_ModeByCallbacks

\* C14: every result of polling-mode run() has a terminal status, and
\* exit_code 0 exactly when that status is done, else 1, whatever stdout and
\* stderr contain.
C14_ExitCodeFromStatus ==
    PollingResult =>
        /\ result[1].status \in TerminalCommandStatuses
        /\ result[1].exit_code = (IF result[1].status = "done" THEN 0 ELSE 1)

\* C14 witness: a failed command that wrote to stdout and nothing to stderr
C14_Witness ==
    /\ PollingResult
    /\ result[1].status = "failed"
    /\ result[1].stdout # <<>>
    /\ result[1].stderr = <<>>
    /\ result[1].exit_code = 1

\* C15: polling-mode run() stops at the first terminal status: the response
\* that reports done, failed or error ends the call with one result built from
\* that response, and no command-status request or sleep follows it.
C15_StopsAtFirstTerminal ==
    /\ [](op = "run" =>
            /\ (cmd_data # <<>> /\ cmd_data[1].status \in TerminalCommandStatuses) =>
                  /\ pc = "idle"
                  /\ outcome = "returned"
                  /\ result # <<>>
                  /\ result[1].status = cmd_data[1].status
                  /\ result[1].stdout = cmd_data[1].stdout
                  /\ result[1].stderr = cmd_data[1].stderr
            /\ result # <<>> =>
                  /\ cmd_data # <<>>
                  /\ cmd_data[1].status \in TerminalCommandStatuses)
    /\ [][(/\ op = "run"
           /\ cmd_data # <<>>
           /\ cmd_data[1].status \in TerminalCommandStatuses
           /\ ncalls' = ncalls)
          => (npoll' = npoll /\ elapsed' = elapsed /\ result' = result)]_vars

\* C15 witness: the second response was the terminal one
C15_Witness ==
    /\ PollingResult
    /\ npoll = 2
    /\ result[1].status = "error"
    /\ outcome = "returned"

\* C16: polling-mode run() called with a timeout aborts with
\* CommandTimeoutError when the command never reaches a terminal status,
\* provided every status request returns and the clock advances.  The loop
\* tests `options.timeout and ...`, so a timeout of 0 is never checked and
\* run() polls forever.
C16_PollTimesOut ==
    (op = "run" /\ pc = "poll" /\ timeout # NoTimeout) ~>
        (outcome = "CommandTimeoutError" \/
         (cmd_data # <<>> /\ cmd_data[1].status \in TerminalCommandStatuses))

\* the same for the timeouts the loop does check
PollTimesOutWhenSet ==
    (op = "run" /\ pc = "poll" /\ IsSet(timeout)) ~>
        (outcome = "CommandTimeoutError" \/
         (cmd_data # <<>> /\ cmd_data[1].status \in TerminalCommandStatuses))

(***************************************************************************)
(* Claims about the events that end a streaming run (SpecEvents)           *)
(***************************************************************************)
\* the payload of the i-th dispatched event, decoded
Decoded(i) == json_loads(dispatched[i].data)

\* the error _run_with_streaming raised ("none" when it did not raise)
ErrorRaised ==
    IF run_state # "raised" THEN "none"
    ELSE CASE how \in {"timeout_event", "end_timeout", "local_timeout"} ->
                  "CommandTimeoutError"
           [] how = "error_event" -> "TavorError"
           [] how = "http_error" -> "HTTPError"
           [] OTHER -> how

\* The text of output field `stream` carried by the events dispatched before
\* the i-th
CarriedBefore(stream, i) ==
    LET outs == SelectSeq(SubSeq(dispatched, 1, i - 1),
                    LAMBDA e : e.event = OUTPUT /\ json_loads(e.data).valid)
    IN  Concat([k \in 1..Len(outs) |->
                  IF stream = "stdout" THEN json_loads(outs[k].data).stdout
                  ELSE json_loads(outs[k].data).stderr])

\* no callback was invoked for an event after the i-th
NoCallbackAfter(i) == \A j \in 1..Len(callbacks) : callbacks[j].event_no <= i

\* the locals of _run_with_streaming before the first event
FreshLocals ==
    [stdout |-> <<>>, stderr |-> <<>>, exit_code |-> 0, status |-> "queued",
     command_id |-> Null, run_state |-> "streaming", how |-> "none",
     result |-> <<>>, dispatched |-> <<>>, callbacks |-> <<>>]

\* C17 (as claimed): an end event whose status is not timeout makes run()
\* return at once: stdout and stderr of the result are the in-order
\* concatenation of the stdout and stderr fields of the output events
\* dispatched before it, no event that follows it in the stream is dispatched
\* and no callback fires after it.
C17_EndReturns ==
    \A i \in 1..Len(dispatched) :
        (dispatched[i].event = END /\ Decoded(i).status # "timeout") =>
            /\ run_state = "returned" /\ how = "end"
            /\ result # <<>>
            /\ result[1].stdout = CarriedBefore("stdout", i)
            /\ result[1].stderr = CarriedBefore("stderr", i)
            /\ i = Len(dispatched)
            /\ NoCallbackAfter(i - 1)

\* C17 (amended): the same for every end event whose payload is a JSON object
\* with a status other than timeout (or with none).
C17_DecodedEndReturns ==
    \A i \in 1..Len(dispatched) :
        (/\ dispatched[i].event = END
         /\ Decoded(i).object
         /\ Decoded(i).status # "timeout") =>
            /\ run_state = "returned" /\ how = "end"
            /\ result # <<>>
            /\ result[1].stdout = CarriedBefore("stdout", i)
            /\ result[1].stderr = CarriedBefore("stderr", i)
            /\ i = Len(dispatched)
            /\ NoCallbackAfter(i - 1)

\* C17 witness: output, end, output were sent and all received; the run
\* returned at the end event with the first output's text
C17_Witness ==
    /\ Len(sent) = 3 /\ wire = <<>>
    /\ EventOf(sent[1]).event = OUTPUT
    /\ EventOf(sent[2]).event = END
    /\ EventOf(sent[3]).event = OUTPUT
    /\ run_state = "returned" /\ how = "end"
    /\ Len(dispatched) = 2
    /\ result[1].stdout # <<>>
    /\ callbacks # <<>>

\* C18 (as claimed): a timeout event, or an end event whose payload status is
\* timeout, aborts run() with CommandTimeoutError and no result is returned.
C18_TimeoutAborts ==
    \A i \in 1..Len(dispatched) :
        (\/ dispatched[i].event = TIMEOUT
         \/ dispatched[i].event = END /\ Decoded(i).status = "timeout") =>
            /\ ErrorRaised = "CommandTimeoutError"
            /\ result = <<>>

\* C18 (amended): a timeout event whose payload is valid JSON, or an end event
\* whose payload is a JSON object with status timeout, aborts run() with
\* CommandTimeoutError and no result is returned; it is the last event
\* dispatched.
C18_DecodedTimeoutAborts ==
    \A i \in 1..Len(dispatched) :
        (\/ dispatched[i].event = TIMEOUT /\ Decoded(i).valid
         \/ dispatched[i].event = END /\ Decoded(i).status = "timeout") =>
            /\ ErrorRaised = "CommandTimeoutError"
            /\ result = <<>>
            /\ i = Len(dispatched)

\* C18 witness: an end event with status timeout after an output event
C18_Witness ==
    /\ Len(dispatched) = 2
    /\ dispatched[1].event = OUTPUT /\ stdout # <<>>
    /\ dispatched[2].event = END
    /\ run_state = "raised" /\ how = "end_timeout"
    /\ result = <<>>

C20_MalformedSkipped ==
    LET good == SelectSeq(dispatched, LAMBDA e : json_loads(e.data).valid)
        st == DispatchAll(FreshLocals, good)
        Lines(cs) == [j \in 1..Len(cs) |-> <<cs[j].stream, cs[j].line>>]
    IN  /\ stdout = st.stdout
        /\ stderr = st.stderr
        /\ status = st.status
        /\ exit_code = st.exit_code
        /\ command_id = st.command_id
        /\ Lines(callbacks) = Lines(st.callbacks)
        /\ \A i \in 1..Len(dispatched) :
             ~Decoded(i).valid => ~(run_state = "raised" /\ i = Len(dispatched))
        /\ IsPrefix(dispatched, EventsOf(sent))
        /\ (http_status = 200 /\ wire = <<>> /\ buffer = <<>>) =>
               dispatched = UpToEnding(EventsOf(sent))

\* C20 witness: a status event, then an event that is no JSON,
\* then an output event that fired its callbacks
C20_Witness ==
    /\ Len(dispatched) = 3
    /\ ~Decoded(2).valid
    /\ dispatched[1].event = STATUS /\ exit_code = 2
    /\ dispatched[3].event = OUTPUT
    /\ \E j \in 1..Len(callbacks) : callbacks[j].event_no = 3

(***************************************************************************)
(* Claims about the timed streaming run (SpecTimed)                        *)
(***************************************************************************)
\* a chunk was processed and at least one of its events was dispatched
BatchDispatched == run_state = "streaming" /\ dispatched' # dispatched

\* the batch left the run going: its last event did not end it
BatchEndedRun == run_state' # "streaming" /\ how' # "local_timeout"

\* run() aborts with the local timeout after the first message of the chunk
AbortsAfterBatch ==
    /\ run_state' = "raised" /\ how' = "local_timeout"
    /\ Len(dispatched') = Len(dispatched) + 1
    /\ result' = <<>>

\* C21: with a caller-supplied timeout, whenever a batch of events has been
\* processed without ending the run and the elapsed time exceeds the timeout,
\* run() aborts with CommandTimeoutError before any further event is
\* dispatched.  The check is `options.timeout and ...`: a timeout of 0 is
\* never compared and the run goes on.
C21_TimeoutAfterBatch ==
    [][(BatchDispatched /\ timeout # NoTimeout /\ elapsed > timeout
            /\ ~BatchEndedRun) => AbortsAfterBatch]_vars

\* the same for the timeouts the loop does check
TimeoutAfterBatchWhenSet ==
    [][(BatchDispatched /\ IsSet(timeout) /\ elapsed > timeout
            /\ ~BatchEndedRun) => AbortsAfterBatch]_vars

(***************************************************************************)
(* Claims about the result of a streaming run                              *)
(***************************************************************************)
\* the status events dispatched so far whose payload was decoded
StatusEvents ==
    {i \in 1..Len(dispatched) : dispatched[i].event = STATUS /\ Decoded(i).object}

\* those that carried an exit_code
ExitCodeEvents == {i \in StatusEvents : Decoded(i).exit_code # <<>>}

Latest(S) == CHOOSE i \in S : \A j \in S : j <= i

\* the status and the exit code last observed in a status event
LastStatus ==
    IF StatusEvents = {} THEN "queued" ELSE Decoded(Latest(StatusEvents)).status

LastExitCode ==
    IF ExitCodeEvents = {} THEN 0
    ELSE Decoded(Latest(ExitCodeEvents)).exit_code[1]

\* C22: when the connection closes without an end event having been
\* dispatched, run() raises nothing and returns a result with the stdout and
\* stderr accumulated so far and the status and exit code last observed
\* (queued and 0 when no status event was seen).
C22_CloseReturnsAccumulated ==
    how = "eof" =>
        /\ run_state = "returned"
        /\ result # <<>>
        /\ result[1].stdout = Carried("stdout")
        /\ result[1].stderr = Carried("stderr")
        /\ result[1].status = LastStatus
        /\ result[1].exit_code = LastExitCode

\* C22 witness: the connection closed after a status and an output event
C22_Witness ==
    /\ how = "eof"
    /\ result # <<>>
    /\ result[1].status = "failed" /\ result[1].exit_code = 2
    /\ result[1].stdout # <<>>

\* C23: in every result of streaming-mode run(), unless a status event
\* supplied an exit_code, exit_code is 0 exactly when the result's status is
\* done.  The executor starts with exit_code 0 and derives nothing from the
\* status, so a result with status queued or failed carries exit_code 0.
C23_ExitCodeDerived ==
    (result # <<>> /\ ExitCodeEvents = {}) =>
        (result[1].exit_code = 0 <=> result[1].status = "done")

\* a failed command reported without exit_code, then the end event
FailedWithExitCodeZero ==
    /\ result # <<>>
    /\ result[1].status = "failed"
    /\ result[1].exit_code = 0
    /\ how = "end"

(***************************************************************************)
(* Claims about the requests (SpecRequest)                                 *)
(***************************************************************************)
\* a response to a plain request has been received
Answered == op = "request" /\ http_status # 0

\* a response to the streaming POST has been received
StreamAnswered == op = "run" /\ http_status # 0

\* the streaming run raised on its POST, before reading any event
RaisedOnPost == run_state = "raised" /\ dispatched = <<>>

\* C24: every response with status 400 or above, to a plain request or to the
\* streaming POST, makes the operation raise an error carrying that status
\* code; it is never returned as a result and no callback is invoked before
\* the error.  Every response below 400 is returned without raising.
C24_ErrorStatusRaises ==
    /\ (Answered /\ http_status >= 400) => outcome = "HTTPError"
    /\ (Answered /\ http_status < 400) => outcome = "returned"
    /\ (StreamAnswered /\ http_status >= 400) =>
           /\ RaisedOnPost /\ how = "http_error"
           /\ result = <<>>
           /\ callbacks = <<>>
    /\ (StreamAnswered /\ http_status < 400) => ~RaisedOnPost

\* the same for the error responses whose body the client can read: whatever
\* the blocking client is sent without the JSON content type, and whatever
\* the async client is sent that is no JSON list
ErrorStatusRaisesWhenReadable ==
    (\/ kind = "blocking" /\ resp_body # "not_json_typed"
     \/ kind = "async" /\ resp_body # "list") => C24_ErrorStatusRaises

\* a response of 400 or above is never returned, whatever it carries
ErrorStatusNeverReturned ==
    /\ (Answered /\ http_status >= 400) => outcome # "returned"
    /\ (StreamAnswered /\ http_status >= 400) => RaisedOnPost /\ result = <<>>

\* ---------------------------------------------------------------------------
\* Box.get_public_url as a function of the box's hostname and the port
\* ---------------------------------------------------------------------------

MaxPort == 12

\* hostnames a Box can be built with: None, "", and some names
Hostnames ==
    {NoneStr} \cup {Some(t) : t \in {<<>>, <<"h">>, <<"a", ".", "b">>,
                                     <<"1", "2">>, <<"-", "x">>}}

\* ports the caller passes: small ones, a negative one, and the usual ones
Ports == (-1 .. MaxPort) \cup {3000, 8080, 65535}

\* a Box built directly, as tests/test_models.py builds it
UrlInit ==
    HandleWith({"none"}, TRUE,
               {<<Box(RUNNING, Null, h)>> : h \in Hostnames}, Ports)

\* box.get_public_url(port)
BoxGetPublicUrl ==
    /\ pc = "idle"
    /\ op = "none"
    /\ op' = "Box.get_public_url"
    /\ outcome' = PublicUrl(box)
    /\ url' = UrlOf(box, port)
    /\ UNCHANGED <<pollv, kind, counting, flowv, entry_running, closed, box, pc,
                   op_closed, op_requests, ncalls, waitv, fetchv, submit_seen,
                   npoll, scopev, delv, streamv, optv, port>>

UrlNext == BoxGetPublicUrl

SpecUrl == UrlInit /\ [][UrlNext]_vars

\* the value of a decimal digit
DigitValue(c) == CHOOSE i \in 0 .. 9 : DIGITS[i + 1] = c

IsDigit(c) == \E i \in 0 .. 9 : DIGITS[i + 1] = c

\* the number a string of decimal digits denotes
RECURSIVE Value(_)
Value(ds) ==
    IF ds = <<>> THEN 0
    ELSE 10 * Value(SubSeq(ds, 1, Len(ds) - 1)) + DigitValue(ds[Len(ds)])

\* `t` is the one decimal numeral of the integer n: an optional minus sign,
\* digits without a leading zero, and the value n
IsNumeralOf(t, n) ==
    LET ds == IF n < 0 THEN Tail(t) ELSE t IN
    /\ t # <<>>
    /\ n < 0 => t[1] = "-"
    /\ ds # <<>>
    /\ \A i \in 1 .. Len(ds) : IsDigit(ds[i])
    /\ Len(ds) > 1 => ds[1] # "0"
    /\ Value(ds) = (IF n < 0 THEN -n ELSE n)

\* `u` reads "https://", the port's numeral, "-", the hostname h
IsPublicUrl(u, p, h) ==
    LET cut == Len(u) - Len(h) IN
    /\ cut > Len(HTTPS) + 1
    /\ SubSeq(u, 1, Len(HTTPS)) = HTTPS
    /\ IsNumeralOf(SubSeq(u, Len(HTTPS) + 1, cut - 1), p)
    /\ u[cut] = "-"
    /\ SubSeq(u, cut + 1, Len(u)) = h

BoxUrlCalled == op = "Box.get_public_url"

\* C25: get_public_url(port) on a box whose hostname is h returns exactly
\* "https://{port}-{h}", for every port; on a box with no hostname (None or
\* the empty string) it raises ValueError and returns no URL.
C25_PublicUrlFormat ==
    BoxUrlCalled =>
        IF NoHostname(box[1].hostname)
        THEN outcome = "ValueError" /\ url = <<>>
        ELSE /\ outcome = "returned"
             /\ Len(url) = 1
             /\ IsPublicUrl(url[1], port, box[1].hostname[1])

C25_Witness ==
    /\ BoxUrlCalled
    /\ box[1].hostname = Some(<<"a", ".", "b">>)
    /\ port = 8080
    /\ url = <<HTTPS \o <<"8", "0", "8", "0", "-", "a", ".", "b">>>>

\* a box without a hostname gives the error
NoHostnameRaises ==
    /\ BoxUrlCalled
    /\ box[1].hostname = NoneStr
    /\ outcome = "ValueError"

\* ---------------------------------------------------------------------------
\* get_public_url on a handle
\* ---------------------------------------------------------------------------

\* the step in which get_public_url does its work (the scope's exit, which
\* calls stop(), is another operation)
UrlStep == pc = "url" /\ op' = "get_public_url"

\* after the step, the URL is the one derived from the box state b
UrlDerivedFrom(b) ==
    IF b = <<>>
    THEN outcome' = "Box information not available" /\ url' = <<>>
    ELSE IF NoHostname(b[1].hostname)
    THEN outcome' = "ValueError" /\ url' = <<>>
    ELSE /\ outcome' = "returned"
         /\ Len(url') = 1
         /\ IsPublicUrl(url'[1], port, b[1].hostname[1])

\* the step sends nothing and keeps the cached box
Offline == op_requests' = op_requests /\ nfetch' = nfetch /\ box' = box

\* C26 as stated: get_public_url on a box handle issues no network request
\* and leaves the handle's cached box unchanged.
C26_PureDerivation == [][UrlStep => Offline]_vars

\* C26, amended: on the async handle get_public_url sends nothing, keeps the
\* cache and derives the URL from it; on the blocking handle it raises at
\* once when the handle is closed, and otherwise sends exactly one status
\* fetch: a failed fetch raises and keeps the cache, a successful one
\* replaces the cache and the URL is derived from the fetched state.
C26_RefreshesOnBlocking ==
    [][UrlStep =>
         IF kind = "async" THEN Offline /\ UrlDerivedFrom(box)
         ELSE IF closed
         THEN Offline /\ outcome' = ClosedError /\ url' = <<>>
         ELSE /\ op_requests' = op_requests + 1
              /\ nfetch' = nfetch + 1
              /\ \/ /\ last_fetch' = "none"
                    /\ box' = box
                    /\ outcome' \in {"BoxNotFoundError", "HTTPError"}
                    /\ url' = <<>>
                 \/ /\ last_fetch' # "none"
                    /\ box' # <<>>
                    /\ box'[1].status = last_fetch'
                    /\ UrlDerivedFrom(box')]_vars

\* the blocking handle's first operation is get_public_url: it fetched the
\* box and returned the URL of the fetched state
C26_Witness ==
    /\ kind = "blocking"
    /\ ncalls = 1
    /\ op = "get_public_url"
    /\ outcome = "returned"
    /\ op_requests = 1
    /\ box # <<>>
    /\ url = <<HTTPS \o <<"8", "0", "8", "0", "-", "h">>>>

\* the async handle's get_public_url returned from the cache
AsyncUrlFromCache ==
    /\ kind = "async"
    /\ op = "get_public_url"
    /\ outcome = "returned"
    /\ op_requests = 0

\* ---------------------------------------------------------------------------
\* pause() and resume(): the POST, then the refresh
\* ---------------------------------------------------------------------------

PauseOrResume == op \in {"pause", "resume"}

\* the step that sends the POST of pause() or resume()
PostStep == PauseOrResume /\ pc = "post" /\ op' = op

\* the step that follows a POST that succeeded
AfterPostStep == PauseOrResume /\ pc = "refresh" /\ op' = op

\* the POST is one request and no fetch; when it fails the call raises at
\* once and the cached box is kept
PostSendsNoFetch ==
    /\ op_requests = 0
    /\ op_requests' = 1
    /\ nfetch' = 0
    /\ box' = box
    /\ pc' = "idle" => outcome' = "HTTPError"

\* after the POST comes exactly one status fetch, which ends the call: the
\* fetched state is cached when it succeeds, the cache is kept when it fails
OneFetchAfterPost ==
    /\ op_requests = 1
    /\ nfetch = 0
    /\ op_requests' = 2
    /\ nfetch' = 1
    /\ pc' = "idle"
    /\ IF outcome' = "returned"
       THEN box' # <<>> /\ last_fetch' # "none" /\ box'[1].status = last_fetch'
       ELSE box' = box

\* C27: pause() and resume() each send their POST first and then exactly one
\* status fetch, so that after a successful call the cached status is the one
\* the service reported after the request; when the POST fails no fetch is
\* made and the cached box is unchanged.
C27_PostThenOneFetch ==
    [][/\ PostStep => PostSendsNoFetch
       /\ AfterPostStep => OneFetchAfterPost]_vars

\* the same on a handle that is not closed
PostThenOneFetchWhenOpen ==
    [][/\ PostStep => PostSendsNoFetch
       /\ (AfterPostStep /\ ~closed) => OneFetchAfterPost]_vars

\* pause() or resume() returned after its POST and one fetch
PausedAndRefreshed ==
    /\ PauseOrResume
    /\ outcome = "returned"
    /\ op_requests = 2
    /\ nfetch = 1
    /\ box # <<>>
    /\ box[1].status = PAUSED

\* pause() or resume() on a closed handle: the POST went out, no fetch followed
PostOnClosedHandle ==
    /\ PauseOrResume
    /\ op_closed
    /\ outcome = ClosedError
    /\ op_requests = 1
    /\ nfetch = 0

\* ---------------------------------------------------------------------------
\* the cached box is written by refresh() alone
\* ---------------------------------------------------------------------------

\* the positions from which refresh() is reached: refresh itself, the status
\* property, the loop of wait_until_ready with its reads of self.status
\* (run() starts with it), the refresh after pause/resume, the blocking
\* get_public_url
RefreshPositions ==
    {"refresh", "status", "wait_refresh", "wait_running", "wait_failure",
     "wait_message", "url"}

\* this step fetched the box state and the fetch succeeded
FetchSucceeded == nfetch' = nfetch + 1 /\ last_fetch' # "none"

\* C28: the cached box state changes only in a step whose status fetch
\* succeeded, and it is then the fetched state; so after any sequence of
\* operations the cached status is that of the most recent successful fetch.
\* stop(), pause()'s and resume()'s POST, run()'s submit and polling and
\* expose_port() never write it, and stop() leaves the cached status as it was.
C28_CacheOnlyFromFetch ==
    /\ [][/\ box' # box => (FetchSucceeded /\ pc \in RefreshPositions)
          /\ FetchSucceeded => (box' # <<>> /\ box'[1].status = last_fetch')
          /\ pc \in {"stop", "post", "expose", "submit", "poll", "streaming"}
                => box' = box
          /\ op' = "stop" => box' = box]_vars
    /\ [](last_fetch # "none" => (box # <<>> /\ box[1].status = last_fetch))

\* stop() succeeded on a handle whose cached box says running: the cache
\* still says running
C28_Witness ==
    /\ op = "stop"
    /\ outcome = "returned"
    /\ closed
    /\ deletes_sent = 1
    /\ box # <<>>
    /\ box[1].status = RUNNING

\* ---------------------------------------------------------------------------
\* run() called by concurrent flows on one handle (polling mode)
\* ---------------------------------------------------------------------------

MaxCommands == 3

\* what the service answers to a flow's status fetch
FlowFetchResponses ==
    {[code |-> 200, box |-> Box(s, Null, NoneStr)] : s \in {QUEUED, FAILED}}
    \cup {[code |-> 200, box |-> Box(RUNNING, Null, Some(<<"h">>))],
          [code |-> 500, box |-> Box(QUEUED, Null, NoneStr)]}

\* the handle's single-flow bookkeeping, which the flows do not touch
FlowFrame ==
    UNCHANGED <<urlv, pollv, kind, counting, entry_running, closed, pc, op,
                outcome, op_closed, op_requests, ncalls, waitv, fetchv,
                submit_seen, npoll, scopev, delv, streamv, optv>>

FlowAt(f, position) == flows[f].pc = position

FlowRaises(f, error) ==
    flows' = [flows EXCEPT ![f].pc = "idle", ![f].outcome = error]

\* a flow calls run(command, timeout=...)
FlowCall(f) ==
    /\ FlowAt(f, "idle")
    /\ Len(commands) < MaxCommands
    /\ \E t \in {NoTimeout, 1} :
         flows' = [flows EXCEPT ![f] = [pc |-> "wait", cmd |-> 0, timeout |-> t,
                                        outcome |-> "pending"]]
    /\ UNCHANGED <<box, commands>>
    /\ FlowFrame

\* one iteration of wait_until_ready inside run(): the fetched state is
\* cached; running goes on to submit, failed raises, anything else sleeps
FlowWait(f) ==
    /\ FlowAt(f, "wait")
    /\ IF closed
       THEN FlowRaises(f, ClosedError) /\ box' = box
       ELSE \E resp \in FlowFetchResponses :
              IF IsError(resp.code)
              THEN FlowRaises(f, FetchError(resp)) /\ box' = box
              ELSE /\ box' = <<resp.box>>
                   /\ IF resp.box.status = RUNNING
                      THEN flows' = [flows EXCEPT ![f].pc = "submit"]
                      ELSE IF IsFailure(resp.box.status)
                      THEN FlowRaises(f, "Box failed to start")
                      ELSE flows' = flows
    /\ UNCHANGED commands
    /\ FlowFrame

\* _queue_command: the service creates the command, queued
FlowSubmit(f) ==
    /\ FlowAt(f, "submit")
    /\ Len(commands) < MaxCommands
    /\ \E code \in HttpStatuses :
         IF IsError(code)
         THEN FlowRaises(f, "HTTPError") /\ commands' = commands
         ELSE /\ commands' = Append(commands, "queued")
              /\ flows' = [flows EXCEPT ![f].pc = "poll",
                                        ![f].cmd = Len(commands) + 1]
    /\ UNCHANGED box
    /\ FlowFrame

\* one iteration of the polling loop: _get_command, the terminal test, the
\* timeout test, the sleep
FlowPoll(f) ==
    /\ FlowAt(f, "poll")
    /\ \E code \in HttpStatuses, late \in BOOLEAN :
         IF IsError(code) THEN FlowRaises(f, "HTTPError")
         ELSE IF IsTerminalCommand(commands[flows[f].cmd])
         THEN flows' = [flows EXCEPT ![f].pc = "idle", ![f].outcome = "returned"]
         ELSE IF flows[f].timeout # NoTimeout /\ flows[f].timeout # 0 /\ late
         THEN FlowRaises(f, "CommandTimeoutError")
         ELSE flows' = flows
    /\ UNCHANGED <<box, commands>>
    /\ FlowFrame

\* the service runs a command: queued, running, then done, failed or error
CommandStep ==
    /\ \E i \in 1 .. Len(commands) :
         \E s \in {"running", "done", "failed", "error"} :
           /\ \/ commands[i] = "queued" /\ s \in {"running", "error"}
              \/ commands[i] = "running" /\ s \in {"done", "failed", "error"}
           /\ commands' = [commands EXCEPT ![i] = s]
    /\ UNCHANGED <<box, flows>>
    /\ FlowFrame

FlowsInit == NewHandle({"none"}, TRUE)

FlowsNext ==
    \/ \E f \in Flows : FlowCall(f)
    \/ \E f \in Flows : FlowWait(f)
    \/ \E f \in Flows : FlowSubmit(f)
    \/ \E f \in Flows : FlowPoll(f)
    \/ CommandStep

SpecFlows == FlowsInit /\ [][FlowsNext]_vars

\* the commands submitted through the handle that are not yet terminal
InFlight == {i \in 1 .. Len(commands) : ~IsTerminalCommand(commands[i])}

\* C29: under any interleaving of run() calls made by concurrent flows on one
\* handle, at most one command submitted through the handle is in flight
\* (submitted and not yet terminal) at any time.
C29_OneCommandInFlight == Cardinality(InFlight) <= 1

\* two flows are inside run() at once, each polling its own command
TwoFlowsPolling ==
    /\ FlowAt(1, "poll")
    /\ FlowAt(2, "poll")
    /\ flows[1].cmd # flows[2].cmd
    /\ InFlight = {flows[1].cmd, flows[2].cmd}

\* a flow inside run() waits for one command, the one it submitted, and no
\* two flows wait for the same command
OneCommandPerFlow ==
    \A f, g \in Flows :
      /\ FlowAt(f, "poll") => flows[f].cmd \in 1 .. Len(commands)
      /\ (f # g /\ FlowAt(f, "poll") /\ FlowAt(g, "poll"))
            => flows[f].cmd # flows[g].cmd

\* ---------------------------------------------------------------------------
\* a local timeout only raises
\* ---------------------------------------------------------------------------

\* the step in which run() or wait_until_ready() raises its timeout error
TimeoutRaisedStep ==
    /\ op' = op
    /\ outcome # "CommandTimeoutError"
    /\ outcome' = "CommandTimeoutError"

\* the step in which the streaming executor raises its timeout error
StreamTimeoutStep == how # "local_timeout" /\ how' = "local_timeout"

\* nothing of the handle is touched and no POST is sent
HandleUntouched ==
    /\ deletes_sent' = deletes_sent
    /\ deletes_failed' = deletes_failed
    /\ nfetch' = nfetch
    /\ closed' = closed
    /\ box' = box
    /\ scope' = scope

\* C30: the step in which run() or wait_until_ready() aborts on a local
\* timeout sends nothing after the timeout is detected: wait_until_ready's
\* step sends no request at all, the polling loop's step holds only the
\* command-status request whose answer was tested before the timeout; no
\* delete is sent, and the closed flag and the cached box are unchanged.
C30_TimeoutOnlyRaises ==
    [][/\ TimeoutRaisedStep =>
            /\ HandleUntouched
            /\ IF pc = "poll"
               THEN op_requests' = op_requests + 1 /\ npoll' = npoll + 1
               ELSE op_requests' = op_requests /\ npoll' = npoll
       /\ StreamTimeoutStep =>
            /\ HandleUntouched
            /\ op_requests' = op_requests
            /\ http_status' = http_status
            /\ run_state' = "raised"]_vars

\* wait_until_ready timed out on an open handle, nothing deleted
C30_Witness ==
    /\ op = "wait_until_ready"
    /\ outcome = "CommandTimeoutError"
    /\ ~closed
    /\ deletes_sent = 0
    /\ nfetch >= 1

\* run() timed out in its polling loop
PollTimedOut ==
    /\ op = "run"
    /\ outcome = "CommandTimeoutError"
    /\ npoll >= 1
    /\ ~closed
    /\ deletes_sent = 0

\* ---------------------------------------------------------------------------
\* AsyncBoxHandle.run(): callbacks while polling a command whose output grows
\* ---------------------------------------------------------------------------

GrowTexts ==
    {<<>>, <<"a">>, <<"a", NL>>, <<"a", NL, "b">>, <<"a", NL, "b", NL, "c">>}

GrowErrTexts == {<<>>, <<"e">>, <<"e", NL, "f">>}

\* the text the previous command-status response carried
PreviousText(field) == IF cmd_data = <<>> THEN <<>> ELSE cmd_data[1][field]

\* a service whose command output only grows by appending
GrowingResponses ==
    {d \in CommandResponses(GrowTexts, GrowErrTexts) :
        /\ IsPrefix(PreviousText("stdout"), d.stdout)
        /\ IsPrefix(PreviousText("stderr"), d.stderr)}

GrowInit == NewHandle({"none"}, TRUE)

\* one run() call on a fresh handle
GrowCall == ncalls = 0 /\ CallOf({"run"}, CommandOptions({NoTimeout}, BOOLEAN))

GrowPoll == PollOf(GrowingResponses)

GrowNext ==
    \/ GrowCall
    \/ WaitRefresh
    \/ WaitCheckRunning
    \/ WaitCheckFailure
    \/ WaitRaiseFailure
    \/ WaitSleep
    \/ Submit
    \/ Streamed
    \/ GrowPoll

SpecGrow == GrowInit /\ [][GrowNext]_vars

\* the arguments one callback was called with, in call order
RECURSIVE ArgsOf(_, _)
ArgsOf(calls, stream) ==
    IF calls = <<>> THEN <<>>
    ELSE (IF Head(calls).stream = stream THEN <<Head(calls).line>> ELSE <<>>)
         \o ArgsOf(Tail(calls), stream)

\* everything a callback was handed, end to end
Delivered(stream) == Concat(ArgsOf(callbacks, stream))

\* the async handle is polling, or has returned from polling, with an answer
AsyncPolled == kind = "async" /\ op = "run" /\ cmd_data # <<>>

\* C31: in the async handle, when the stdout (stderr) of successive
\* command-status responses only grows by appending, the arguments passed to
\* on_stdout (on_stderr), end to end, are at every moment the stdout (stderr)
\* of the latest response, so each byte is passed exactly once and in order;
\* at return they equal the stdout (stderr) of the returned result.
C31_EachByteOnce ==
    AsyncPolled =>
        /\ on_stdout => Delivered("stdout") = cmd_data[1].stdout
        /\ on_stderr => Delivered("stderr") = cmd_data[1].stderr
        /\ result # <<>> =>
             /\ on_stdout => Delivered("stdout") = result[1].stdout
             /\ on_stderr => Delivered("stderr") = result[1].stderr
        /\ \A i, j \in 1 .. Len(callbacks) :
             i <= j => callbacks[i].event_no <= callbacks[j].event_no

\* three responses, each with more stdout, the last one terminal
C31_Witness ==
    /\ AsyncPolled
    /\ on_stdout
    /\ npoll = 3
    /\ result # <<>>
    /\ result[1].stdout = <<"a", NL, "b", NL, "c">>
    /\ Len(ArgsOf(callbacks, "stdout")) = 4

\* ---------------------------------------------------------------------------
\* streaming: several status events
\* ---------------------------------------------------------------------------

\* status events with and without exit_code, without status, with a payload
\* that is not JSON, and the end events
StatusRecords ==
    { Record(STATUS, P_done0), Record(STATUS, P_failed2), Record(STATUS, P_failed),
      Record(STATUS, P_cmd), Record(STATUS, P_empty), Record(STATUS, P_bad),
      Record(END, P_done), Record(END, P_end_error) }

StatusInit == StreamStart(StatusRecords, MaxEvents, {TRUE}, {TRUE}, {NoTimeout})

SpecStatus == StatusInit /\ [][EventsNext]_vars

\* the run returned from an end event whose status is error
EndedWithError ==
    /\ how = "end"
    /\ dispatched # <<>>
    /\ Decoded(Len(dispatched)).object
    /\ Decoded(Len(dispatched)).status = "error"

\* C32: in streaming mode the status of the returned result is the status of
\* the last status event dispatched (error when an end event with status
\* error ended the run) and the exit code is the last explicit exit_code a
\* status event carried; a later status event overwrites an earlier one
\* even when the earlier one was terminal.  Before any status event the
\* status is queued and the exit code 0.
C32_LastStatusWins ==
    run_state = "returned" =>
        /\ result # <<>>
        /\ result[1].status = (IF EndedWithError THEN "error" ELSE LastStatus)
        /\ result[1].exit_code = LastExitCode

\* status done with exit_code 0, then status failed with exit_code 2, then
\* the end event: the result is failed with exit code 2
C32_Witness ==
    /\ run_state = "returned"
    /\ how = "end"
    /\ Len(dispatched) = 3
    /\ dispatched[1].event = STATUS /\ Decoded(1).status = "done"
    /\ dispatched[2].event = STATUS /\ Decoded(2).status = "failed"
    /\ result[1].status = "failed"
    /\ result[1].exit_code = 2

\* a status event without exit_code after one with it keeps the exit code
StatusKeepsExitCode ==
    /\ run_state = "returned"
    /\ Len(dispatched) >= 2
    /\ dispatched[1].event = STATUS /\ Decoded(1).exit_code = <<2>>
    /\ dispatched[2].event = STATUS /\ Decoded(2).status = "queued"
    /\ result[1].status = "queued"
    /\ result[1].exit_code = 2

\* ---------------------------------------------------------------------------
\* stop() called by concurrent flows on one handle
\* ---------------------------------------------------------------------------

MaxDeletes == 3

\* a flow calls stop()
FlowStopCall(f) ==
    /\ FlowAt(f, "idle")
    /\ deletes_sent < MaxDeletes
    /\ flows' = [flows EXCEPT ![f] = [pc |-> "stop", cmd |-> 0,
                                      timeout |-> NoTimeout, outcome |-> "pending"]]
    /\ UNCHANGED <<box, commands>>
    /\ FlowFrame

\* `if not self._closed:` and, when it is not, the DELETE request goes out;
\* the flow then waits for the answer (an await, or a blocking call during
\* which other threads run)
FlowStopCheck(f) ==
    /\ FlowAt(f, "stop")
    /\ IF StopSends(closed)
       THEN /\ flows' = [flows EXCEPT ![f].pc = "deleting"]
            /\ deletes_sent' = deletes_sent + 1
       ELSE /\ flows' = [flows EXCEPT ![f].pc = "idle", ![f].outcome = "returned"]
            /\ deletes_sent' = deletes_sent
    /\ UNCHANGED <<box, commands, closed, deletes_failed>>
    /\ UNCHANGED <<urlv, pollv, kind, counting, entry_running, pc, op,
                   outcome, op_closed, op_requests, ncalls, waitv, fetchv,
                   submit_seen, npoll, scopev, streamv, optv>>

\* the answer to the DELETE: an error propagates, otherwise
\* `self._closed = True`
FlowStopAnswered(f) ==
    /\ FlowAt(f, "deleting")
    /\ \E code \in HttpStatuses :
         IF IsError(code)
         THEN /\ FlowRaises(f, "HTTPError")
              /\ deletes_failed' = deletes_failed + 1
              /\ closed' = closed
         ELSE /\ flows' = [flows EXCEPT ![f].pc = "idle", ![f].outcome = "returned"]
              /\ deletes_failed' = deletes_failed
              /\ closed' = TRUE
    /\ UNCHANGED <<box, commands, deletes_sent>>
    /\ UNCHANGED <<urlv, pollv, kind, counting, entry_running, pc, op,
                   outcome, op_closed, op_requests, ncalls, waitv, fetchv,
                   submit_seen, npoll, scopev, streamv, optv>>

StopsInit == NewHandle({"none"}, TRUE)

StopsNext ==
    \/ \E f \in Flows : FlowStopCall(f)
    \/ \E f \in Flows : FlowStopCheck(f)
    \/ \E f \in Flows : FlowStopAnswered(f)

SpecStops == StopsInit /\ [][StopsNext]_vars

\* C33: under any interleaving of stop() calls made concurrently on one
\* handle, at most one DELETE request is sent for the box.
C33_OneDelete == deletes_sent <= 1

\* two flows are inside stop() at once, each waiting for its own DELETE
TwoDeletesPending ==
    /\ FlowAt(1, "deleting")
    /\ FlowAt(2, "deleting")
    /\ deletes_sent = 2
    /\ deletes_failed = 0

\* once a DELETE has succeeded and no other is pending, no further one is sent
NoDeleteAfterClosed ==
    [][(closed /\ \A f \in Flows : ~FlowAt(f, "deleting"))
          => deletes_sent' = deletes_sent]_vars

\* ---------------------------------------------------------------------------
\* stop() whose DELETE fails
\* ---------------------------------------------------------------------------

\* a step of stop() or close(), called by the caller or by the scope's exit
StopStep ==
    /\ pc' = "idle"
    /\ op' \in {"stop", "close"}
    /\ pc = "stop" \/ scope' # scope

\* the DELETE of this step was answered with an error
DeleteFailed == deletes_failed' = deletes_failed + 1

\* C34: when the DELETE sent by stop() fails, the error propagates and the
\* closed flag is unchanged; the handle therefore still accepts operations
\* (nothing raises the closed-handle error on it), and a later stop() on it
\* sends the DELETE again.
C34_FailedStopStaysOpen ==
    /\ [][DeleteFailed =>
            /\ StopStep
            /\ outcome' = "HTTPError"
            /\ closed' = closed
            /\ ~closed
            /\ deletes_sent' = deletes_sent + 1]_vars
    /\ [][(pc = "stop" /\ op' = op /\ ~closed)
            => deletes_sent' = deletes_sent + 1]_vars
    /\ [](outcome = ClosedError => (closed /\ deletes_sent > deletes_failed))

\* stop() failed, refresh() was accepted, stop() sent the DELETE again and
\* this time it succeeded
C34_Witness ==
    /\ op \in {"stop", "close"}
    /\ ncalls = 3
    /\ outcome = "returned"
    /\ closed
    /\ deletes_sent = 2
    /\ deletes_failed = 1
    /\ box # <<>>

\* ---------------------------------------------------------------------------
\* refresh() that raises
\* ---------------------------------------------------------------------------

\* a step of refresh(), called by the caller or after pause()/resume()
RefreshStep == pc = "refresh" /\ op' = op

RefreshRaised == outcome' \notin {"returned", "pending"}

\* C35: whenever refresh() raises, the cached box and the closed flag are
\* unchanged: on a closed handle it raises the closed-handle error without
\* sending a request, and when the status fetch fails the box cached before
\* is kept.
C35_RefreshRaisesCleanly ==
    [][(RefreshStep /\ RefreshRaised) =>
         /\ box' = box
         /\ closed' = closed
         /\ IF closed
            THEN /\ outcome' = ClosedError
                 /\ op_requests' = op_requests
                 /\ nfetch' = nfetch
            ELSE /\ outcome' \in {"BoxNotFoundError", "HTTPError"}
                 /\ op_requests' = op_requests + 1
                 /\ nfetch' = nfetch + 1
                 /\ last_fetch' = "none"]_vars

\* refresh() failed on a handle that had cached a running box: the cache is
\* still there
C35_Witness ==
    /\ op = "refresh"
    /\ outcome = "BoxNotFoundError"
    /\ nfetch = 1
    /\ ~closed
    /\ box # <<>>
    /\ box[1].status = RUNNING

\* refresh() on a closed handle raised without a request
RefreshOnClosed ==
    /\ op = "refresh"
    /\ outcome = ClosedError
    /\ closed
    /\ op_requests = 0

\* ---------------------------------------------------------------------------
\* the wait loops: the status check and the timeout check
\* ---------------------------------------------------------------------------

\* the polling loop: a terminal answer returns, and the timeout error is
\* raised only after an answer that was not terminal
PollDecides ==
    /\ (/\ pc = "poll"
        /\ op' = op
        /\ outcome' # "HTTPError"
        /\ cmd_data' # <<>>
        /\ IsTerminalCommand(cmd_data'[1].status)) => outcome' = "returned"
    /\ (TimeoutRaisedStep /\ pc = "poll") =>
          /\ cmd_data' # <<>>
          /\ ~IsTerminalCommand(cmd_data'[1].status)

\* wait_until_ready: an iteration whose fetch observed a running box goes on
\* successfully, and the timeout error is raised only when the status last
\* observed was neither running nor a failure
WaitDecides ==
    /\ (pc = "wait_running" /\ op' = op /\ last_fetch = RUNNING) =>
          (pc' = "submit" \/ outcome' = "returned")
    /\ (TimeoutRaisedStep /\ pc = "wait_timeout") =>
          (last_fetch # RUNNING /\ ~IsFailure(last_fetch))

\* C36: in the wait loops the status check precedes the timeout check: a
\* poll that observes a terminal command status (polling run) or a running
\* box (wait_until_ready) returns successfully even when the timeout has
\* elapsed, and a timeout error is raised only on an iteration whose observed
\* status was non-terminal.
C36_StatusBeforeTimeout == [][PollDecides /\ WaitDecides]_vars

\* the same for the polling loop of both handles and the wait loop of the
\* async handle
StatusBeforeTimeoutAsync ==
    [][PollDecides /\ (kind = "async" => WaitDecides)]_vars

\* run() returned a result although its timeout had elapsed
ReturnedAfterDeadline ==
    /\ PollingResult
    /\ outcome = "returned"
    /\ IsSet(timeout)
    /\ elapsed > timeout

\* ---------------------------------------------------------------------------
\* streaming: the connection closes in the middle of a record
\* ---------------------------------------------------------------------------

\* a close that hands the text left in the buffer to the dispatch loop
StreamCutFlushes ==
    /\ run_state = "streaming"
    /\ wire # <<>>
    /\ SetLocals(Return(ProcessMessages(Locals, <<buffer>>), "eof"))
    /\ UNCHANGED <<sent, wire, http_status, resp_body, buffer, on_stdout, on_stderr,
                   timeout, elapsed>>

\* The connection closes before the service has written everything: iter_content
\* ends, the rest of the body (still in `wire`) never arrives, the text in
\* `buffer` is dropped and the accumulated result is returned.
StreamCut ==
    /\ run_state = "streaming"
    /\ wire # <<>>
    /\ SetLocals(Return(Locals, "eof"))
    /\ UNCHANGED <<sent, wire, http_status, resp_body, buffer, on_stdout, on_stderr,
                   timeout, elapsed>>

CutRecords ==
    { Record(OUTPUT, P_ab), Record(STATUS, P_failed2), Record(END, P_done) }

CutInit == StreamStart(CutRecords, MaxRecords, {TRUE}, {TRUE}, {NoTimeout})

CutNext == (OpenStream \/ RecvChunk \/ StreamClose \/ StreamCut) /\ UNCHANGED hvars

SpecCut == CutInit /\ [][CutNext]_vars

\* the text of the body received so far
Received ==
    IF run_state = "init" \/ http_status >= 400 THEN <<>>
    ELSE SubSeq(SerializeAll(sent), 1, Len(SerializeAll(sent)) - Len(wire))

\* the locals after dispatching, from the start, the events dispatched so far
Replayed == DispatchAll(FreshLocals, dispatched)

\* C37: in streaming mode a record is dispatched only once its terminating
\* blank line has been received: the events dispatched are those of the first
\* records sent, all of them received up to their blank line, and the callback
\* invocations and the returned result are those of the dispatched events;
\* text left in the buffer when the connection closes is never dispatched.
C37_OnlyTerminatedRecords ==
    LET k == Len(dispatched)
    IN  /\ k <= Len(sent)
        /\ dispatched = EventsOf(SubSeq(sent, 1, k))
        /\ Len(SerializeAll(SubSeq(sent, 1, k))) <= Len(Received)
        /\ callbacks = Replayed.callbacks
        /\ how = "eof" => result = <<CommandResult(Replayed)>>

\* the connection closed inside an end event that follows an output event:
\* the end event is in the buffer, the run returned through the end of the
\* loop with the status still queued
C37_Witness ==
    /\ how = "eof"
    /\ Len(sent) = 2 /\ sent[2].event = END
    /\ Len(dispatched) = 1 /\ dispatched[1].event = OUTPUT
    /\ wire # <<>> /\ Len(wire) <= 2
    /\ buffer # <<>>
    /\ result[1].status = "queued"
    /\ result[1].stdout # <<>>
    /\ callbacks # <<>>

\* ---------------------------------------------------------------------------
\* streaming: a slow connection and the caller's timeout
\* ---------------------------------------------------------------------------

\* The service writes an empty record, a blank line of its own, in front of
\* the next record: the loop reads a message that message.strip() empties.
SendBlank ==
    /\ run_state = "streaming"
    /\ buffer = <<>>
    /\ IF wire = <<>> THEN TRUE ELSE wire[1] # NL
    /\ wire' = BLANK_LINE \o wire
    /\ UNCHANGED <<sent, http_status, resp_body, buffer, stdout, stderr, exit_code,
                   status, command_id, on_stdout, on_stderr, timeout, elapsed,
                   run_state, how, result, dispatched, callbacks>>

SlowRecords == { Record(OUTPUT, P_ab), Record(END, P_done) }

SlowInit == StreamStart(SlowRecords, MaxRecords, {TRUE}, {TRUE}, Timeouts)

\* chunks of any size, time passing between them
SlowNext ==
    (OpenStream \/ Tick \/ SendBlank \/ RecvChunk \/ StreamClose) /\ UNCHANGED hvars

SpecSlow == SlowInit /\ [][SlowNext]_vars

\* C38: in streaming mode the caller's timeout is evaluated only after a
\* complete non-empty record has been processed: the step that raises
\* CommandTimeoutError has dispatched a record, and while the connection is
\* open and no record has been completed the run is not ended by the
\* timeout, however far the clock is past it.
C38_TimeoutOnlyAfterRecord ==
    /\ [][StreamTimeoutStep => Len(dispatched') > Len(dispatched)]_vars
    /\ [](dispatched = <<>> => how # "local_timeout")

\* the timeout has passed, part of the first record and nothing else has
\* arrived, and the run is still reading
C38_Witness ==
    /\ run_state = "streaming"
    /\ IsSet(timeout)
    /\ elapsed > timeout + (MaxElapsed - 2)
    /\ buffer # <<>> /\ ~IsBlank(buffer)
    /\ wire # <<>>
    /\ dispatched = <<>>

\* the timeout is raised once the first record is complete
TimeoutAfterFirstRecord ==
    /\ how = "local_timeout"
    /\ Len(dispatched) = 1
    /\ Len(sent) = 2

============================================================================
